---- MODULE Spec2Model ----
(***************************************************************************)
(* Valuation engine of the MLB contract advisor: the name normalizer       *)
(* (backend/app/utils.py), the name resolver of the data integration       *)
(* script (Data/integrate_with_spotrac_improved.py) and the prediction     *)
(* service (backend/app/services/prediction_service.py).                   *)
(*                                                                         *)
(* A string is a sequence of characters; a character is a one-token        *)
(* string.  Precomposed accented letters are the tokens "e_acute",         *)
(* "i_acute", "E_acute"; the combining acute accent (category Mn) is the   *)
(* token "COMB_ACUTE"; the tab character is "TAB".                         *)
(***************************************************************************)
EXTENDS Integers, Sequences, FiniteSets, TLC

VARIABLES
    \* --- a name being typed and normalized (normalize_name) ---
    base,       \* the reference spelling of the name
    raw,        \* the spelling as typed: base after some edits
    edits,      \* how many edits turned base into raw
    suffixed,   \* TRUE once a generational suffix has been appended to raw
    npc,        \* "typing" | "normalized" | "idle"
    key,        \* normalize_name(raw)
    keyBase,    \* normalize_name(base)
    rekey,      \* normalize_name(key)
    \* --- the name resolver (find_player_match) ---
    stats_df,     \* the FanGraphs table: a sequence of rows [Name, Season]
    hasNormCol,   \* TRUE when stats_df has the column _normalized_name
    normCol,      \* that column: one key per row (<<>> while absent)
    mpc,          \* "loading" | "ready" | "matched" | "idle"
    player_name,  \* the name of the last lookup
    years_to_avg, \* the seasons of the last lookup
    match,        \* its result: [none, rows, tag]; rows are row numbers of stats_df
    \* --- the prediction service (PredictionService) ---
    models_dir,      \* the models directory and the contracts file, as on disk
    models,          \* the model types that have a model loaded
    scalers,         \* the model types that have a scaler loaded
    features,        \* model type -> the ordered feature names of the model
    configs,         \* model type -> is_log_transformed
    quantile_models, \* the model types that have low/high quantile models
    metrics,         \* model type -> [mae, within_5m]
    loaded,          \* _loaded
    ppc,             \* "starting" | "serving" | "predicted" | "idle"
    request,         \* the PredictionRequest of the last call of predict
    result,          \* what predict returned, with the arrays it gave the scalers
    contracts_df,    \* the historical contracts: a sequence of rows (<<>> when none)
    \* --- the ranking passes (_find_comparables and by recent performance) ---
    rpc,             \* "loading" | "ranked" | "idle"
    topn,            \* the n of the last ranking call
    comparables,     \* its outcome: [status, pass, top]
    \* --- the endpoints (api/predictions.py, api/chat.py, main.py) ---
    apc,             \* "waiting" | "answered" | "idle"
    response,        \* the answer to the last call, with the calls of predict it made
    \* --- the yearly statistics (seed_database.py, StatsService, ContextService) ---
    yearly_stats,    \* the table PlayerYearlyStats: a sequence of rows
    spc,             \* "seeding" | "ready" | "looked" | "idle"
    stats_lookup,    \* the last name looked up, with the key and rows of each lookup
    \* --- predictions in progress (the steps of _predict_batter / _predict_pitcher) ---
    inflight,        \* call -> [stage, steps, request, result]
    frames           \* frame -> the local variables of the call that owns the frame

normVars == <<base, raw, edits, suffixed, npc, key, keyBase, rekey>>

matchVars == <<stats_df, hasNormCol, normCol, mpc, player_name, years_to_avg, match>>

\* what load_models fills and every request reads
resourceVars ==
    <<models, scalers, features, configs, quantile_models, metrics, contracts_df>>

predictVars == <<models_dir, resourceVars, loaded, ppc, request, result>>

rankVars == <<rpc, topn, comparables>>

apiVars == <<apc, response>>

statsVars == <<yearly_stats, spc, stats_lookup>>

pipeVars == <<inflight, frames>>

vars == <<normVars, matchVars, predictVars, rankVars, apiVars,
         statsVars, pipeVars>>

----------------------------------------------------------------------------
(* Bounds *)

MaxEdits == 2

MaxRows == 2

\* the most rows the historical contracts table is given
MaxContracts == 2

----------------------------------------------------------------------------
(* Characters: unicodedata / str / re character classes *)

\* unicodedata.normalize('NFD', c): canonical decomposition of one character.
NFD(c) ==
    CASE c = "e_acute" -> <<"e", "COMB_ACUTE">>
      [] c = "i_acute" -> <<"i", "COMB_ACUTE">>
      [] c = "E_acute" -> <<"E", "COMB_ACUTE">>
      [] OTHER -> <<c>>

\* unicodedata.category(c) == 'Mn'
IsMn(c) == c = "COMB_ACUTE"

UpperPairs ==
    { <<"A", "a">>, <<"B", "b">>, <<"E", "e">>, <<"I", "i">>, <<"J", "j">>,
      <<"L", "l">>, <<"M", "m">>, <<"R", "r">>, <<"S", "s">>, <<"V", "v">>,
      <<"E_acute", "e_acute">> }

\* str.lower() on one character
LowerChar(c) ==
    IF \E p \in UpperPairs : p[1] = c
    THEN (CHOOSE p \in UpperPairs : p[1] = c)[2]
    ELSE c

\* str.upper() on one character
UpperChar(c) ==
    IF \E p \in UpperPairs : p[2] = c
    THEN (CHOOSE p \in UpperPairs : p[2] = c)[1]
    ELSE c

\* \s of the re module, and the separators of str.split()
IsSpace(c) == c \in {" ", "TAB"}

PunctChars == {".", ",", "'"}

\* \w of the re module: letters, digits and underscore
IsWord(c) == ~IsSpace(c) /\ c \notin PunctChars /\ c # "-" /\ ~IsMn(c)

----------------------------------------------------------------------------
(* String helpers *)

RECURSIVE Flatten(_)
Flatten(ss) == IF ss = <<>> THEN <<>> ELSE Head(ss) \o Flatten(Tail(ss))

\* str.lower()
LowerStr(s) == [i \in 1..Len(s) |-> LowerChar(s[i])]

\* str.endswith(suffix)
EndsWith(s, suffix) ==
    /\ Len(suffix) <= Len(s)
    /\ SubSeq(s, Len(s) - Len(suffix) + 1, Len(s)) = suffix

\* str.startswith(prefix)
StartsWith(s, prefix) ==
    /\ Len(prefix) <= Len(s)
    /\ SubSeq(s, 1, Len(prefix)) = prefix

\* substring test: pattern in s (str.contains with a pattern free of regex
\* metacharacters)
Contains(s, pattern) ==
    \E i \in 0..(Len(s) - Len(pattern)) :
        SubSeq(s, i + 1, i + Len(pattern)) = pattern

\* str.split() with no argument: the maximal runs of non-whitespace
RECURSIVE SplitFrom(_, _, _)
SplitFrom(s, i, cur) ==
    IF i > Len(s)
    THEN IF cur = <<>> THEN <<>> ELSE <<cur>>
    ELSE IF IsSpace(s[i])
         THEN (IF cur = <<>> THEN <<>> ELSE <<cur>>) \o SplitFrom(s, i + 1, <<>>)
         ELSE SplitFrom(s, i + 1, Append(cur, s[i]))

Split(s) == SplitFrom(s, 1, <<>>)

\* ' '.join(parts)
RECURSIVE JoinSpace(_)
JoinSpace(parts) ==
    IF parts = <<>> THEN <<>>
    ELSE IF Len(parts) = 1 THEN parts[1]
    ELSE parts[1] \o <<" ">> \o JoinSpace(Tail(parts))

\* str.strip(): drop leading and trailing whitespace
RECURSIVE LStrip(_)
LStrip(s) == IF s # <<>> /\ IsSpace(Head(s)) THEN LStrip(Tail(s)) ELSE s

RECURSIVE RStrip(_)
RStrip(s) ==
    IF s # <<>> /\ IsSpace(s[Len(s)]) THEN RStrip(SubSeq(s, 1, Len(s) - 1)) ELSE s

Strip(s) == RStrip(LStrip(s))

Min(S) == CHOOSE x \in S : \A y \in S : x <= y

\* the element of a one-element set; {F(x) : x \in {e}} computes e once
The(S) == CHOOSE x \in S : TRUE

----------------------------------------------------------------------------
(* normalize_name, backend/app/utils.py *)

NAME_SUFFIXES ==
    << <<" ", "j", "r", ".">>, <<" ", "j", "r">>,
       <<" ", "s", "r", ".">>, <<" ", "s", "r">>,
       <<" ", "i", "i">>, <<" ", "i", "i", "i">>,
       <<" ", "i", "v">>, <<" ", "v">> >>

\* NFD-decompose, then drop the combining marks
StripAccents(name) ==
    SelectSeq(Flatten([i \in 1..Len(name) |-> NFD(name[i])]), LAMBDA c : ~IsMn(c))

\* remove the first suffix of NAME_SUFFIXES that ends the lowercased name
StripSuffix(name) ==
    LET name_lower == LowerStr(name)
        hits == {i \in 1..Len(NAME_SUFFIXES) : EndsWith(name_lower, NAME_SUFFIXES[i])}
    IN  IF hits = {} THEN name
        ELSE SubSeq(name, 1, Len(name) - Len(NAME_SUFFIXES[Min(hits)]))

\* re.sub(r"[^\w\s\-]", "", name)
RemoveSpecial(name) ==
    SelectSeq(name, LAMBDA c : IsWord(c) \/ IsSpace(c) \/ c = "-")

\* the steps after the empty-name test: accents, suffix, special characters,
\* whitespace, case
NormalizeSteps(name) ==
    The({ Strip(LowerStr(joined)) :
            joined \in { JoinSpace(Split(cleaned)) :
              cleaned \in { RemoveSpecial(unsuffixed) :
                unsuffixed \in { StripSuffix(plain) :
                  plain \in {StripAccents(name)} } } } })

normalize_name(name) ==
    IF name = <<>> THEN <<>> ELSE NormalizeSteps(name)

----------------------------------------------------------------------------
(* Typing a name: the spellings of one name that differ in diacritics,     *)
(* case, one trailing suffix, punctuation or extra whitespace              *)

Jose == <<"j", "o", "s", "e", " ", "r", "a", "m", "i", "r", "e", "z">>
AlLee == <<"a", "l", " ", "l", "e", "e">>

BaseNames == {Jose, AlLee}

\* the spellings of the generational suffixes a name can end with
SuffixSpellings ==
    { <<" ", "J", "r", ".">>, <<" ", "J", "r">>, <<" ", "S", "r", ".">>,
      <<" ", "S", "r">>, <<" ", "I", "I">>, <<" ", "I", "I", "I">>,
      <<" ", "I", "V">>, <<" ", "V">> }

AccentPairs == { <<"e", "e_acute">>, <<"i", "i_acute">>, <<"E", "E_acute">> }

Insert(s, i, c) == SubSeq(s, 1, i) \o <<c>> \o SubSeq(s, i + 1, Len(s))

Replace(s, i, c) == [s EXCEPT ![i] = c]

NoMatch == [none |-> TRUE, rows |-> <<>>, tag |-> "not called"]

\* the resolver's variables while another component runs
MatchIdle ==
    /\ stats_df = <<>>
    /\ hasNormCol = FALSE
    /\ normCol = <<>>
    /\ mpc = "idle"
    /\ player_name = <<>>
    /\ years_to_avg = {}
    /\ match = NoMatch

NoRequest == [position |-> "", age |-> 0, war_3yr |-> 0, stats |-> <<>>]

NoResult == [status |-> "none"]

\* no directory read
NoDir ==
    [present |-> <<>>, corrupt |-> {}, trained |-> FALSE, is_log |-> FALSE,
     csv_ok |-> TRUE, contracts |-> <<>>]

\* the state __init__ leaves
Constructed ==
    /\ models = {}
    /\ scalers = {}
    /\ features = <<>>
    /\ configs = <<>>
    /\ quantile_models = {}
    /\ metrics = <<>>
    /\ contracts_df = <<>>
    /\ loaded = FALSE

\* the prediction service's variables while another component runs
PredictIdle ==
    /\ models_dir = NoDir
    /\ models = {}
    /\ scalers = {}
    /\ features = <<>>
    /\ configs = <<>>
    /\ quantile_models = {}
    /\ metrics = <<>>
    /\ loaded = FALSE
    /\ ppc = "idle"
    /\ request = NoRequest
    /\ result = NoResult
    /\ contracts_df = <<>>

NoComparables == [status |-> "none", pass |-> "none", top |-> <<>>]

\* no answer yet; the fields a response can carry
NoResponse ==
    [endpoint |-> "none", status_code |-> 0, calls |-> <<>>,
     player_found |-> FALSE, predicted_aav |-> 0, has_recent |-> FALSE,
     predicted_aav_recent |-> 0, is_two_way_player |-> FALSE,
     batter_aav |-> 0, pitcher_aav |-> 0, pitcher_source |-> "none",
     batter_confidence |-> 0, pitcher_confidence |-> 0,
     combined_aav |-> 0, health_status |-> "none", models_loaded |-> FALSE]

\* the endpoints' variables while another component runs
ApiIdle ==
    /\ apc = "idle"
    /\ response = NoResponse

\* the ranking passes' variables while another component runs
NoLookup == [called |-> FALSE]

StatsIdle ==
    /\ yearly_stats = <<>>
    /\ spc = "idle"
    /\ stats_lookup = NoLookup

PipeIdle ==
    /\ inflight = <<>>
    /\ frames = <<>>

RankIdle ==
    /\ rpc = "idle"
    /\ topn = 0
    /\ comparables = NoComparables

\* the normalizer's variables while another component runs
NormIdle ==
    /\ base = <<>>
    /\ raw = <<>>
    /\ edits = 0
    /\ suffixed = FALSE
    /\ npc = "idle"
    /\ key = <<>>
    /\ keyBase = <<>>
    /\ rekey = <<>>

InitNorm ==
    /\ base \in BaseNames
    /\ raw = base
    /\ edits = 0
    /\ suffixed = FALSE
    /\ npc = "typing"
    /\ key = <<>>
    /\ keyBase = <<>>
    /\ rekey = <<>>
    /\ MatchIdle
    /\ PredictIdle
    /\ RankIdle
    /\ ApiIdle
    /\ StatsIdle
    /\ PipeIdle

Typing ==
    /\ npc = "typing"
    /\ edits < MaxEdits
    /\ UNCHANGED <<matchVars, predictVars, rankVars, apiVars, statsVars,
                   pipeVars>>

TypeAccent ==
    /\ Typing
    /\ \E i \in 1..Len(raw) : \E p \in AccentPairs :
          /\ raw[i] = p[1]
          /\ raw' = Replace(raw, i, p[2])
    /\ edits' = edits + 1
    /\ UNCHANGED <<base, suffixed, npc, key, keyBase, rekey>>

TypeUpper ==
    /\ Typing
    /\ \E i \in 1..Len(raw) :
          /\ UpperChar(raw[i]) # raw[i]
          /\ raw' = Replace(raw, i, UpperChar(raw[i]))
    /\ edits' = edits + 1
    /\ UNCHANGED <<base, suffixed, npc, key, keyBase, rekey>>

TypeSuffix ==
    /\ Typing
    /\ ~suffixed
    /\ \E s \in SuffixSpellings : raw' = raw \o s
    /\ suffixed' = TRUE
    /\ edits' = edits + 1
    /\ UNCHANGED <<base, npc, key, keyBase, rekey>>

TypePunct ==
    /\ Typing
    /\ \E i \in 0..Len(raw) : \E c \in PunctChars : raw' = Insert(raw, i, c)
    /\ edits' = edits + 1
    /\ UNCHANGED <<base, suffixed, npc, key, keyBase, rekey>>

\* extra whitespace: leading, trailing, or next to a whitespace already there
TypeSpace ==
    /\ Typing
    /\ \E i \in 0..Len(raw) :
          /\ \/ i = 0
             \/ i = Len(raw)
             \/ (i >= 1 /\ IsSpace(raw[i]))
             \/ (i < Len(raw) /\ IsSpace(raw[i + 1]))
          /\ raw' = Insert(raw, i, " ")
    /\ edits' = edits + 1
    /\ UNCHANGED <<base, suffixed, npc, key, keyBase, rekey>>

Normalize ==
    /\ npc = "typing"
    /\ key' = normalize_name(raw)
    /\ keyBase' = normalize_name(base)
    /\ rekey' = normalize_name(normalize_name(raw))
    /\ npc' = "normalized"
    /\ UNCHANGED <<base, raw, edits, suffixed>>
    /\ UNCHANGED <<matchVars, predictVars, rankVars, apiVars, statsVars,
                   pipeVars>>

NextNorm ==
    \/ TypeAccent
    \/ TypeUpper
    \/ TypeSuffix
    \/ TypePunct
    \/ TypeSpace
    \/ Normalize

SpecNorm == InitNorm /\ [][NextNorm]_vars

----------------------------------------------------------------------------
(* Claims about normalize_name *)

JoseRamirezJr ==
    <<"J", "o", "s", "e_acute", " ", "R", "a", "m", "i_acute", "r", "e", "z",
      " ", "J", "r", ".">>

\* C1: normalize_name is idempotent: normalizing the key of any typed
\* spelling gives that key again.
C1_Idempotent == npc = "normalized" => rekey = key

\* C2: every spelling typed from a name by changes of diacritics, case, one
\* trailing suffix, punctuation or extra whitespace has the key of the name
\* itself, and "Jose Ramirez Jr." (accented) has the key of "jose ramirez".
C2_SameKey ==
    /\ npc = "normalized" => key = keyBase
    /\ normalize_name(JoseRamirezJr) = normalize_name(Jose)

----------------------------------------------------------------------------
(* The name resolver, Data/integrate_with_spotrac_improved.py *)

\* a missing cell of a table (pd.isna)
NaN == <<"NaN">>

\* normalize_name of the integration script
spotrac_normalize_name(name) ==
    IF name = NaN THEN <<>>
    ELSE The({ Strip(LowerStr(joined)) :
                 joined \in { JoinSpace(Split(cleaned)) :
                   cleaned \in { RemoveSpecial(unsuffixed) :
                     unsuffixed \in { StripSuffix(plain) :
                       plain \in {StripAccents(name)} } } } })

\* <<first name, last name>> of the normalized name
get_name_parts(name) ==
    LET parts == Split(spotrac_normalize_name(name))
    IN  IF Len(parts) >= 2 THEN <<parts[1], parts[Len(parts)]>>
        ELSE IF Len(parts) = 1 THEN <<<<>>, parts[1]>>
        ELSE <<<<>>, <<>>>>

\* the _normalized_name column computed from the Name column
ComputeKeys(df) == [i \in 1..Len(df) |-> spotrac_normalize_name(df[i].Name)]

\* df[df['Season'].isin(years)]: the row numbers in the years, in table order
YearFiltered(df, years) ==
    SelectSeq([i \in 1..Len(df) |-> i], LAMBDA i : df[i].Season \in years)

\* the distinct keys of some rows: rows['_normalized_name'].unique()
Unique(rows, keys) == {keys[rows[j]] : j \in 1..Len(rows)}

\* Strategy 1: the key equals the normalized target
S1Pred(k, normalized_target) == k = normalized_target

\* mutant of S2Pred: the first initial is not compared
S2Pred_NoInitial(k, first_name, last_name) == Contains(k, last_name)

\* Strategy 2: the key contains the last name and starts with the first initial
S2Pred(k, first_name, last_name) ==
    /\ Contains(k, last_name)
    /\ StartsWith(k, <<first_name[1]>>)

\* mutant of S2Accept: any non-empty selection is accepted
S2Accept_Any(rows, keys) == Len(rows) > 0

S2Accept(rows, keys) ==
    \/ Len(rows) = 1
    \/ (Len(rows) > 0 /\ Cardinality(Unique(rows, keys)) = 1)

\* Strategy 3: the regular expression " {last_name}$|^{last_name} "
S3Pred(k, last_name) ==
    \/ EndsWith(k, <<" ">> \o last_name)
    \/ StartsWith(k, last_name \o <<" ">>)

\* Strategy 4: the key contains the first name and the last name
S4Pred(k, first_name, last_name) ==
    /\ Contains(k, first_name)
    /\ Contains(k, last_name)

\* Strategy 5: the key contains the first four characters of the last name
S5Pred(k, last_name) == Contains(k, SubSeq(last_name, 1, 4))

S5Accept(rows, keys) == Len(rows) > 0 /\ Cardinality(Unique(rows, keys)) = 1

Found(rows, tag) == [none |-> FALSE, rows |-> rows, tag |-> tag]

NotFound(tag) == [none |-> TRUE, rows |-> <<>>, tag |-> tag]

\* the rows of yf each strategy's predicate selects
S1Rows(yf, keys, normalized_target) ==
    SelectSeq(yf, LAMBDA i : S1Pred(keys[i], normalized_target))

S2Rows(yf, keys, first_name, last_name) ==
    SelectSeq(yf, LAMBDA i : S2Pred(keys[i], first_name, last_name))

S3Rows(yf, keys, last_name) == SelectSeq(yf, LAMBDA i : S3Pred(keys[i], last_name))

S4Rows(yf, keys, first_name, last_name) ==
    SelectSeq(yf, LAMBDA i : S4Pred(keys[i], first_name, last_name))

S5Rows(yf, keys, last_name) == SelectSeq(yf, LAMBDA i : S5Pred(keys[i], last_name))

\* Strategies 5 and the final "No match found"
Strategy5(yf, keys, last_name) ==
    LET partial_last == S5Rows(yf, keys, last_name)
    IN  IF last_name # <<>> /\ Len(last_name) > 3 /\ S5Accept(partial_last, keys)
        THEN Found(partial_last, "partial_last_name")
        ELSE NotFound("No match found")

Strategy4(yf, keys, first_name, last_name) ==
    LET contains_both == S4Rows(yf, keys, first_name, last_name)
    IN  IF first_name # <<>> /\ last_name # <<>> /\ Len(contains_both) > 0
        THEN Found(contains_both, "contains_both_names")
        ELSE Strategy5(yf, keys, last_name)

\* mutant of Strategy3: "contains both names" is tried before the unique
\* last name
Strategy3_BothFirst(yf, keys, first_name, last_name) ==
    LET contains_both == S4Rows(yf, keys, first_name, last_name)
        last_match == S3Rows(yf, keys, last_name)
        refined == SelectSeq(last_match, LAMBDA i : Contains(keys[i], first_name))
    IN  IF first_name # <<>> /\ last_name # <<>> /\ Len(contains_both) > 0
        THEN Found(contains_both, "contains_both_names")
        ELSE IF last_name # <<>> /\ Len(last_match) > 0
                /\ Cardinality(Unique(last_match, keys)) = 1
        THEN Found(last_match, "unique_last_name")
        ELSE IF last_name # <<>> /\ Len(last_match) > 0
                /\ first_name # <<>> /\ Len(refined) > 0
        THEN Found(refined, "last_name_partial_first")
        ELSE Strategy5(yf, keys, last_name)

Strategy3(yf, keys, first_name, last_name) ==
    LET last_match == S3Rows(yf, keys, last_name)
        refined == SelectSeq(last_match, LAMBDA i : Contains(keys[i], first_name))
    IN  IF last_name # <<>> /\ Len(last_match) > 0
           /\ Cardinality(Unique(last_match, keys)) = 1
        THEN Found(last_match, "unique_last_name")
        ELSE IF last_name # <<>> /\ Len(last_match) > 0
                /\ first_name # <<>> /\ Len(refined) > 0
        THEN Found(refined, "last_name_partial_first")
        ELSE Strategy4(yf, keys, first_name, last_name)

Strategy2(yf, keys, first_name, last_name) ==
    LET partial_match == S2Rows(yf, keys, first_name, last_name)
    IN  IF first_name # <<>> /\ last_name # <<>> /\ S2Accept(partial_match, keys)
        THEN Found(partial_match, "last_name_first_initial")
        ELSE Strategy3(yf, keys, first_name, last_name)

\* mutant of Strategy1: no test for an empty year range
Strategy1_NoYearTest(yf, keys, normalized_target, first_name, last_name) ==
    LET exact_match == S1Rows(yf, keys, normalized_target)
    IN  IF Len(exact_match) > 0 THEN Found(exact_match, "exact_normalized")
        ELSE Strategy2(yf, keys, first_name, last_name)

\* Strategy 1, after the year filter
Strategy1(yf, keys, normalized_target, first_name, last_name) ==
    LET exact_match == S1Rows(yf, keys, normalized_target)
    IN  IF Len(yf) = 0 THEN NotFound("No data in year range")
        ELSE IF Len(exact_match) > 0 THEN Found(exact_match, "exact_normalized")
        ELSE Strategy2(yf, keys, first_name, last_name)

\* find_player_match(player_name, stats_df, years_to_avg); keys is the
\* _normalized_name column as the function finds or creates it
find_player_match(name, df, keys, years) ==
    The({ Strategy1(year_filtered, keys, normalized_target, parts[1], parts[2]) :
            normalized_target \in {spotrac_normalize_name(name)},
            parts \in {get_name_parts(name)},
            year_filtered \in {YearFiltered(df, years)} })

\* the seasons averaged for a contract signed in year_signed
\* (get_3year_avg_stats)
YearsToAvg(year_signed) == {year_signed - 3, year_signed - 2, year_signed - 1}

----------------------------------------------------------------------------
(* The tables and lookups of the model *)

AaronJudge == <<"A", "a", "r", "o", "n", " ", "J", "u", "d", "g", "e">>
AlJudge == <<"A", "l", " ", "J", "u", "d", "g", "e">>
MajorJudgeson ==
    <<"M", "a", "j", "o", "r", " ", "J", "u", "d", "g", "e", "s", "o", "n">>
JoseLee == <<"J", "o", "s", "e_acute", " ", "L", "e", "e">>
AlJudgeLee == <<"A", "l", " ", "J", "u", "d", "g", "e", " ", "L", "e", "e">>

\* the names a row of the table can carry
TableNames == {AaronJudge, AlJudge, MajorJudgeson, JoseLee, AlJudgeLee, NaN}

JDotJudge == <<"J", ".", " ", "J", "u", "d", "g", "e">>
ADotJudge == <<"A", ".", " ", "J", "u", "d", "g", "e">>
JoJudge == <<"J", "o", " ", "J", "u", "d", "g", "e">>
AlJudgment == <<"A", "l", " ", "J", "u", "d", "g", "m", "e", "n", "t">>
Judge == <<"J", "u", "d", "g", "e">>
BoSmith == <<"B", "o", " ", "S", "m", "i", "t", "h">>

\* the names looked up
QueryNames ==
    {JDotJudge, ADotJudge, AaronJudge, JoJudge, AlJudgment, Judge, BoSmith,
     <<"j", "o", "s", "e", " ", "l", "e", "e", " ", "J", "r", ".">>, NaN}

Seasons == {2021, 2022}

SigningYears == {2022, 2023}

InitMatch ==
    /\ stats_df = <<>>
    /\ hasNormCol = FALSE
    /\ normCol = <<>>
    /\ mpc = "loading"
    /\ player_name = <<>>
    /\ years_to_avg = {}
    /\ match = NoMatch
    /\ NormIdle
    /\ PredictIdle
    /\ RankIdle
    /\ ApiIdle
    /\ StatsIdle
    /\ PipeIdle

\* pd.read_csv: one more row of the table
LoadRow ==
    /\ mpc = "loading"
    /\ Len(stats_df) < MaxRows
    /\ \E n \in TableNames : \E y \in Seasons :
          stats_df' = Append(stats_df, [Name |-> n, Season |-> y])
    /\ UNCHANGED <<hasNormCol, normCol, mpc, player_name, years_to_avg, match>>
    /\ UNCHANGED <<normVars, predictVars, rankVars, apiVars, statsVars,
                   pipeVars>>

\* fg['_normalized_name'] = fg['Name'].apply(normalize_name)
PrecomputeKeys ==
    /\ mpc = "loading"
    /\ hasNormCol' = TRUE
    /\ normCol' = ComputeKeys(stats_df)
    /\ mpc' = "ready"
    /\ UNCHANGED <<stats_df, player_name, years_to_avg, match>>
    /\ UNCHANGED <<normVars, predictVars, rankVars, apiVars, statsVars,
                   pipeVars>>

\* a call of find_player_match from get_3year_avg_stats
FindPlayerMatch ==
    /\ mpc \in {"loading", "ready"}
    /\ \E n \in QueryNames : \E ys \in SigningYears :
          \E keys \in {IF hasNormCol THEN normCol ELSE ComputeKeys(stats_df)} :
              /\ player_name' = n
              /\ years_to_avg' = YearsToAvg(ys)
              /\ hasNormCol' = TRUE
              /\ normCol' = keys
              /\ match' = find_player_match(n, stats_df, keys, YearsToAvg(ys))
    /\ mpc' = "matched"
    /\ UNCHANGED stats_df
    /\ UNCHANGED <<normVars, predictVars, rankVars, apiVars, statsVars,
                   pipeVars>>

\* the next contract of the merge loop: the lookup's locals are gone
NextContract ==
    /\ mpc = "matched"
    /\ mpc' = "ready"
    /\ player_name' = <<>>
    /\ years_to_avg' = {}
    /\ match' = NoMatch
    /\ UNCHANGED <<stats_df, hasNormCol, normCol>>
    /\ UNCHANGED <<normVars, predictVars, rankVars, apiVars, statsVars,
                   pipeVars>>

NextMatch ==
    \/ LoadRow
    \/ PrecomputeKeys
    \/ FindPlayerMatch
    \/ NextContract

SpecMatch == InitMatch /\ [][NextMatch]_vars

----------------------------------------------------------------------------
(* Claims about find_player_match *)

Matched == mpc = "matched"

\* the rows of the table in the year range of the lookup
InRange == YearFiltered(stats_df, years_to_avg)

Names(rows) == {normCol[rows[j]] : j \in 1..Len(rows)}

\* the last lookup seen from outside: the parts of the query, the in-range
\* rows, and the in-range rows each strategy's predicate selects
LookupView ==
    The({ [ first |-> p[1], last |-> p[2], inRange |-> yf,
            rows1 |-> S1Rows(yf, normCol, t),
            rows2 |-> IF p[1] = <<>> THEN <<>>
                      ELSE S2Rows(yf, normCol, p[1], p[2]),
            rows3 |-> S3Rows(yf, normCol, p[2]),
            rows4 |-> S4Rows(yf, normCol, p[1], p[2]),
            rows5 |-> IF Len(p[2]) <= 3 THEN <<>>
                      ELSE S5Rows(yf, normCol, p[2]),
            aaron |-> SelectSeq(yf, LAMBDA i : stats_df[i].Name = AaronJudge) ] :
            t \in {spotrac_normalize_name(player_name)},
            p \in {get_name_parts(player_name)},
            yf \in {InRange} })

Rows3Refined(v) == SelectSeq(v.rows3, LAMBDA i : Contains(normCol[i], v.first))

\* the acceptance condition of each strategy
Accepts1(v) == Len(v.rows1) > 0
Accepts2(v) ==
    v.first # <<>> /\ v.last # <<>> /\ Cardinality(Names(v.rows2)) = 1
Accepts3Unique(v) == v.last # <<>> /\ Cardinality(Names(v.rows3)) = 1
Accepts3Refined(v) ==
    /\ v.last # <<>> /\ v.first # <<>>
    /\ Cardinality(Names(v.rows3)) > 1
    /\ Len(Rows3Refined(v)) > 0
Accepts4(v) == v.first # <<>> /\ v.last # <<>> /\ Len(v.rows4) > 0
Accepts5(v) == Len(v.last) > 3 /\ Cardinality(Names(v.rows5)) = 1

JudgeKey == <<"j", "u", "d", "g", "e">>

\* "J. Judge" was looked up, "Aaron Judge" is in range and no other in-range
\* name contains "judge"
JJudgeCase(v) ==
    /\ player_name = JDotJudge
    /\ Len(v.aaron) > 0
    /\ \A j \in 1..Len(v.inRange) :
          stats_df[v.inRange[j]].Name # AaronJudge
              => ~Contains(normCol[v.inRange[j]], JudgeKey)

\* C3 as stated: "J. Judge" against a table whose only Judge is "Aaron Judge"
\* is resolved by strategy 2, with tag "last_name_first_initial".
C3_AsStated ==
    Matched => \A v \in {LookupView} :
        JJudgeCase(v) => match = Found(v.aaron, "last_name_first_initial")

\* C3 amended: "J. Judge" against a table whose only Judge is "Aaron Judge"
\* is not resolved by strategy 2 (the key "aaron judge" does not start with
\* "j"); strategy 3 resolves it and returns the rows of Aaron Judge with tag
\* "unique_last_name".
C3_JJudgeUniqueLastName ==
    Matched => \A v \in {LookupView} :
        JJudgeCase(v) => match = Found(v.aaron, "unique_last_name")

C3_Witness ==
    Matched /\ \E v \in {LookupView} :
        /\ JJudgeCase(v)
        /\ Len(v.inRange) > Len(v.aaron)
        /\ match.tag = "unique_last_name"

\* C4: the result is that of the first strategy, in the order exact,
\* surname + first initial, unique surname, both tokens, partial surname,
\* whose acceptance condition holds; in particular an in-range row whose key
\* equals the normalized query makes the result exactly those rows, tagged
\* exact.
C4_FirstAcceptingStrategy ==
    Matched => \A v \in {LookupView} : Len(v.inRange) > 0 =>
        /\ Accepts1(v) => match = Found(v.rows1, "exact_normalized")
        /\ (~Accepts1(v) /\ Accepts2(v))
              => match = Found(v.rows2, "last_name_first_initial")
        /\ (~Accepts1(v) /\ ~Accepts2(v) /\ Accepts3Unique(v))
              => match = Found(v.rows3, "unique_last_name")
        /\ (~Accepts1(v) /\ ~Accepts2(v) /\ Accepts3Refined(v))
              => match = Found(Rows3Refined(v), "last_name_partial_first")
        /\ (~Accepts1(v) /\ ~Accepts2(v) /\ ~Accepts3Unique(v)
                /\ ~Accepts3Refined(v) /\ Accepts4(v))
              => match = Found(v.rows4, "contains_both_names")
        /\ (~Accepts1(v) /\ ~Accepts2(v) /\ ~Accepts3Unique(v)
                /\ ~Accepts3Refined(v) /\ ~Accepts4(v) /\ Accepts5(v))
              => match = Found(v.rows5, "partial_last_name")

\* an earlier strategy accepted although a later one selects other rows
C4_Witness ==
    Matched /\ \E v \in {LookupView} :
        /\ match.tag = "unique_last_name"
        /\ Accepts4(v)
        /\ v.rows4 # match.rows

StrategyTags ==
    {"exact_normalized", "last_name_first_initial", "unique_last_name",
     "contains_both_names", "partial_last_name"}

\* C5 as stated: the tag is one of the five strategy tags when rows are
\* returned and "No match found" when none are.
C5_AsStated ==
    Matched =>
        /\ match.tag \in StrategyTags \cup {"No match found"}
        /\ match.none <=> match.tag = "No match found"

\* C5 amended: the tag is one of eight values: when rows are returned, one of
\* the five strategy tags or "last_name_partial_first" (strategy 3 narrowed by
\* the first name); when none are, "No data in year range" if no row of the
\* table is in the year range and "No match found" otherwise.
C5_EightTags ==
    Matched =>
        /\ match.tag \in StrategyTags
              \cup {"last_name_partial_first", "No match found",
                    "No data in year range"}
        /\ ~match.none <=>
              match.tag \in StrategyTags \cup {"last_name_partial_first"}
        /\ ~match.none <=> Len(match.rows) > 0
        /\ match.tag = "No data in year range" <=> Len(InRange) = 0

\* strategy 3 narrowed by the first name returned two rows
C5_Witness ==
    /\ Matched
    /\ match.tag = "last_name_partial_first"
    /\ Len(match.rows) = 2

\* a lookup against a table with rows, none in the year range
C5_WitnessNoData ==
    /\ Matched
    /\ match.tag = "No data in year range"
    /\ Len(stats_df) > 0

\* C6: a result tagged surname + first initial, or partial surname, carries
\* one distinct key, and every in-range row that satisfies the strategy's
\* predicate has that key.
C6_SingleName ==
    (Matched /\ match.tag \in {"last_name_first_initial", "partial_last_name"})
    => \A v \in {LookupView} :
          /\ Cardinality(Names(match.rows)) = 1
          /\ match.tag = "last_name_first_initial" => Names(v.rows2) = Names(match.rows)
          /\ match.tag = "partial_last_name" => Names(v.rows5) = Names(match.rows)

\* strategy 2 accepted several rows of one name while other rows are in range
C6_Witness ==
    /\ Matched
    /\ match.tag = "last_name_first_initial"
    /\ Len(match.rows) > 1

\* strategy 5 accepted
C6_WitnessPartial == Matched /\ match.tag = "partial_last_name"

----------------------------------------------------------------------------
(* The prediction service, backend/app/services/prediction_service.py      *)
(*                                                                         *)
(* Numbers are fixed-point, in thousandths: 4.00 is 4000, 0.250 is 250,    *)
(* the flag 1 is 1000.  Ages and contract lengths in years are integers.   *)
(* Velocities have one decimal, so a product of two statistics divides one *)
(* factor by 100 first and stays exact within 32 bits.                     *)

PITCHER_POSITIONS == {"SP", "RP", "P", "CL"}

\* POSITION_GROUPS.get(position, 'OF')
POSITION_GROUPS ==
    [SP |-> "SP", RP |-> "RP", CL |-> "RP", P |-> "SP", C |-> "C",
     1B |-> "1B", 2B |-> "2B", 3B |-> "3B", SS |-> "SS", LF |-> "OF",
     CF |-> "OF", RF |-> "OF", OF |-> "OF", DH |-> "DH"]

DEFAULT_BATTER_STATS ==
    [wrc_plus |-> 100000, avg |-> 250, obp |-> 320, slg |-> 400, hr |-> 15000,
     exit_velo |-> 88500, barrel_rate |-> 8000, max_exit_velo |-> 110000,
     hard_hit_pct |-> 40000, chase_rate |-> 50000, whiff_rate |-> 50000]

DEFAULT_PITCHER_STATS ==
    [era |-> 4000, fip |-> 4000, k_9 |-> 8000, bb_9 |-> 3000, ip |-> 150000,
     fb_velocity |-> 50000, fb_spin |-> 50000, xera |-> 50000,
     k_percent |-> 50000, bb_percent |-> 50000,
     whiff_percent_pitcher |-> 50000, chase_percent_pitcher |-> 50000]

\* the confidence cap, in percent
MAX_CONFIDENCE_SCORE == 95

\* position.upper()
PositionUpper(position) ==
    CASE position = "rf" -> "RF"
      [] position = "sp" -> "SP"
      [] OTHER -> position

is_pitcher(position) == PositionUpper(position) \in PITCHER_POSITIONS

get_position_group(position) ==
    IF PositionUpper(position) \in DOMAIN POSITION_GROUPS
    THEN POSITION_GROUPS[PositionUpper(position)]
    ELSE "OF"

\* request.<field> is not None
IsNotNone(req, field) == field \in DOMAIN req.stats

\* request.<field> or default: None and 0 are both falsy
OrDefault(req, field, default) ==
    IF IsNotNone(req, field) /\ req.stats[field] # 0
    THEN req.stats[field]
    ELSE default

Max(a, b) == IF a >= b THEN a ELSE b

Flag(b) == IF b THEN 1000 ELSE 0

\* request.war_3yr / request.age if request.age > 0 else 0
PeakEfficiency(req) == IF req.age > 0 THEN req.war_3yr \div req.age ELSE 0

\* 1 if user provided any Statcast data (batters)
BatterHasStatcast(req) ==
    IsNotNone(req, "avg_exit_velo") \/ IsNotNone(req, "barrel_rate")

\* the feature_values dictionary of _predict_batter
BatterFeatureValues(req) ==
    LET pos_group == get_position_group(req.position)
        avg == OrDefault(req, "avg_3yr", DEFAULT_BATTER_STATS.avg)
        slg == OrDefault(req, "slg_3yr", DEFAULT_BATTER_STATS.slg)
        avg_exit_velo == OrDefault(req, "avg_exit_velo", DEFAULT_BATTER_STATS.exit_velo)
        barrel_rate == OrDefault(req, "barrel_rate", DEFAULT_BATTER_STATS.barrel_rate)
    IN  [age_at_signing |-> req.age * 1000,
         WAR_3yr |-> req.war_3yr,
         wRC_plus_3yr |-> OrDefault(req, "wrc_plus_3yr", DEFAULT_BATTER_STATS.wrc_plus),
         AVG_3yr |-> avg,
         OBP_3yr |-> OrDefault(req, "obp_3yr", DEFAULT_BATTER_STATS.obp),
         SLG_3yr |-> slg,
         HR_3yr |-> OrDefault(req, "hr_3yr", DEFAULT_BATTER_STATS.hr),
         seasons_with_data |-> 3000,
         avg_exit_velo |-> avg_exit_velo,
         barrel_rate |-> barrel_rate,
         max_exit_velo |->
             OrDefault(req, "max_exit_velo", DEFAULT_BATTER_STATS.max_exit_velo),
         hard_hit_pct |->
             OrDefault(req, "hard_hit_pct", DEFAULT_BATTER_STATS.hard_hit_pct),
         chase_rate |-> OrDefault(req, "chase_rate", DEFAULT_BATTER_STATS.chase_rate),
         whiff_rate |-> OrDefault(req, "whiff_rate", DEFAULT_BATTER_STATS.whiff_rate),
         peak_efficiency |-> PeakEfficiency(req),
         ISO_3yr |-> slg - avg,
         power_consistency |-> ((avg_exit_velo \div 100) * barrel_rate) \div 1000,
         has_statcast |-> Flag(BatterHasStatcast(req)),
         pos_1B |-> Flag(pos_group = "1B"),
         pos_2B |-> Flag(pos_group = "2B"),
         pos_3B |-> Flag(pos_group = "3B"),
         pos_C |-> Flag(pos_group = "C"),
         pos_DH |-> Flag(pos_group = "DH"),
         pos_OF |-> Flag(pos_group = "OF"),
         pos_SS |-> Flag(pos_group = "SS")]

\* the Statcast flag of _predict_pitcher
PitcherHasStatcast(req) == IsNotNone(req, "fb_velocity") \/ IsNotNone(req, "xera")

\* the feature_values dictionary of _predict_pitcher
PitcherFeatureValues(req) ==
    LET k_9 == OrDefault(req, "k_9_3yr", DEFAULT_PITCHER_STATS.k_9)
        bb_9 == OrDefault(req, "bb_9_3yr", DEFAULT_PITCHER_STATS.bb_9)
    IN  [age_at_signing |-> req.age * 1000,
         WAR_3yr |-> req.war_3yr,
         ERA_3yr |-> OrDefault(req, "era_3yr", DEFAULT_PITCHER_STATS.era),
         FIP_3yr |-> OrDefault(req, "fip_3yr", DEFAULT_PITCHER_STATS.fip),
         K_9_3yr |-> k_9,
         BB_9_3yr |-> bb_9,
         IP_3yr |-> OrDefault(req, "ip_3yr", DEFAULT_PITCHER_STATS.ip),
         seasons_with_data |-> 3000,
         is_starter |-> Flag(PositionUpper(req.position) = "SP"),
         peak_efficiency |-> PeakEfficiency(req),
         control_metric |-> k_9 - bb_9,
         fb_velocity |-> OrDefault(req, "fb_velocity", DEFAULT_PITCHER_STATS.fb_velocity),
         fb_spin |-> OrDefault(req, "fb_spin", DEFAULT_PITCHER_STATS.fb_spin),
         xera |-> OrDefault(req, "xera", DEFAULT_PITCHER_STATS.xera),
         k_percent |-> OrDefault(req, "k_percent", DEFAULT_PITCHER_STATS.k_percent),
         bb_percent |-> OrDefault(req, "bb_percent", DEFAULT_PITCHER_STATS.bb_percent),
         whiff_percent_pitcher |->
             OrDefault(req, "whiff_percent_pitcher",
                       DEFAULT_PITCHER_STATS.whiff_percent_pitcher),
         chase_percent_pitcher |->
             OrDefault(req, "chase_percent_pitcher",
                       DEFAULT_PITCHER_STATS.chase_percent_pitcher),
         has_statcast |-> Flag(PitcherHasStatcast(req))]

\* an assembler that leaves out the names it does not know
FeatureArray_DropUnknown(feature_values, feature_list) ==
    LET known == SelectSeq(feature_list, LAMBDA f : f \in DOMAIN feature_values)
    IN  [i \in 1..Len(known) |-> feature_values[known[i]]]

\* np.array([[feature_values.get(f, 0) for f in features]])
FeatureArray(feature_values, feature_list) ==
    [i \in 1..Len(feature_list) |->
        IF feature_list[i] \in DOMAIN feature_values
        THEN feature_values[feature_list[i]]
        ELSE 0]

\* np.exp on the outputs a model can give, in thousandths
ExpMilli(y) ==
    CASE y = -1000 -> 368
      [] y = 0 -> 1000
      [] y = 3000 -> 20086

\* self.configs.get(model_type, {}).get('is_log_transformed', False)
IsLogTransformed(model_type) ==
    model_type \in DOMAIN configs /\ configs[model_type]

\* the point estimate: the log transform is reversed when the model has one
PointEstimate(model_type, predicted_aav_raw) ==
    IF IsLogTransformed(model_type) THEN ExpMilli(predicted_aav_raw) - 100
    ELSE predicted_aav_raw

\* the prediction interval <<low, high>>
Interval(model_type, predicted_aav, aav_low_raw, aav_high_raw) ==
    IF model_type \in quantile_models
    THEN IF IsLogTransformed(model_type)
         THEN <<Max(500, ExpMilli(aav_low_raw) - 100), ExpMilli(aav_high_raw) - 100>>
         ELSE <<Max(500, aav_low_raw), aav_high_raw>>
    ELSE <<Max(500, predicted_aav - metrics[model_type].mae),
           predicted_aav + metrics[model_type].mae>>

\* round(): to the nearest integer, halves to the even one
Round(x) ==
    LET q == x \div 1000
        r == x % 1000
    IN  IF r > 500 THEN q + 1
        ELSE IF r < 500 THEN q
        ELSE IF q % 2 = 0 THEN q ELSE q + 1

\* a confidence that is the raw metric
Confidence_Uncapped(accuracy) == accuracy

\* min(MAX_CONFIDENCE_SCORE, accuracy)
Confidence(accuracy) ==
    IF accuracy <= MAX_CONFIDENCE_SCORE * 1000 THEN accuracy
    ELSE MAX_CONFIDENCE_SCORE * 1000

----------------------------------------------------------------------------
(* The ranking passes: PredictionService._find_comparables and             *)
(* find_comparables_by_recent_performance of api/predictions.py            *)
(*                                                                         *)
(* A similarity is a fraction num / den, den being the product of the      *)
(* three normalisation maxima of the call, so that scores of one call are  *)
(* compared exactly.  A similarity_score is in tenths, as round(x, 1)      *)
(* leaves it.                                                              *)

\* get_current_year()
CurrentYear == 2026

Abs(x) == IF x < 0 THEN 0 - x ELSE x

MaxOf(S) == CHOOSE x \in S : \A y \in S : y <= x

\* diff.max() if diff.max() > 0 else 1
Denominator(diffs) == IF MaxOf(diffs) > 0 THEN MaxOf(diffs) ELSE 1

\* the row numbers of the table whose position is of the wanted type
SameTypeRows(df, pitcher) ==
    SelectSeq([i \in 1..Len(df) |-> i],
              LAMBDA i : (df[i].position \in PITCHER_POSITIONS) = pitcher)

\* df['position'].map(POSITION_GROUPS).fillna('OF'): the label as it is in
\* the table
MapPositionGroup(position) ==
    IF position \in DOMAIN POSITION_GROUPS THEN POSITION_GROUPS[position]
    ELSE "OF"

\* is_ext = age <= 25 and length >= 6
IsExtension(row) == row.age_at_signing <= 25 /\ row.length >= 6

\* the candidates of _find_comparables: the rows of the type, with WAR_3yr
SigningCandidates(df, pitcher) ==
    LET sel == SameTypeRows(df, pitcher)
    IN  [k \in 1..Len(sel) |->
            [idx |-> sel[k], position |-> df[sel[k]].position,
             group |-> MapPositionGroup(df[sel[k]].position),
             war |-> df[sel[k]].WAR_3yr, age |-> df[sel[k]].age_at_signing,
             year |-> df[sel[k]].year_signed,
             is_extension |-> IsExtension(df[sel[k]])]]

\* the candidates of the recent pass: the rows of the type that have a
\* recent_war_3yr, with it
RecentCandidates(df, pitcher) ==
    LET sel == SelectSeq(SameTypeRows(df, pitcher), LAMBDA i : df[i].has_recent)
    IN  [k \in 1..Len(sel) |->
            [idx |-> sel[k], position |-> df[sel[k]].position,
             group |-> get_position_group(df[sel[k]].position),
             war |-> df[sel[k]].recent_war_3yr, age |-> df[sel[k]].age_at_signing,
             year |-> df[sel[k]].year_signed,
             is_extension |-> IsExtension(df[sel[k]])]]

\* maxima that are constants of the program, not taken over the candidates
Maxima_Global(cands, war, age) == [war |-> 10000, age |-> 10, year |-> 10]

\* the three normalisation maxima of a call
Maxima(cands, war, age) ==
    [war |-> Denominator({Abs(cands[k].war - war) : k \in 1..Len(cands)}),
     age |-> Denominator({Abs(cands[k].age - age) : k \in 1..Len(cands)}),
     year |-> Denominator({CurrentYear - cands[k].year : k \in 1..Len(cands)})]

\* terms whose age part grows with the distance in age
Terms_FartherAgeBetter(c, pos_group, war, age, mx) ==
    [pos |-> IF c.group = pos_group
             THEN 40 * mx.war * mx.age * mx.year ELSE 0,
     war |-> (mx.war - Abs(c.war - war)) * 35 * mx.age * mx.year,
     age |-> Abs(c.age - age) * 15 * mx.war * mx.year,
     year |-> (mx.year - (CurrentYear - c.year)) * 10 * mx.war * mx.age]

\* the four terms of one candidate's similarity, each times den:
\* 40 for the position group, 35 for WAR, 15 for age, 10 for recency
Terms(c, pos_group, war, age, mx) ==
    [pos |-> IF c.group = pos_group
             THEN 40 * mx.war * mx.age * mx.year ELSE 0,
     war |-> (mx.war - Abs(c.war - war)) * 35 * mx.age * mx.year,
     age |-> (mx.age - Abs(c.age - age)) * 15 * mx.war * mx.year,
     year |-> (mx.year - (CurrentYear - c.year)) * 10 * mx.war * mx.age]

\* a ranking that ignores the signing year
Similarity_NoRecency(cands, position, war, age) ==
    LET mx == The({Maxima(cands, war, age)})
        pos_group == get_position_group(position)
    IN  [k \in 1..Len(cands) |->
            LET t == Terms(cands[k], pos_group, war, age, mx)
            IN  [idx |-> cands[k].idx, war_3yr |-> cands[k].war,
                 is_extension |-> cands[k].is_extension,
                 num |-> t.pos + t.war + t.age,
                 den |-> mx.war * mx.age * mx.year]]

\* similarity = pos_match + war_similarity + age_similarity + recency_similarity
Similarity(cands, position, war, age) ==
    LET mx == The({Maxima(cands, war, age)})
        pos_group == get_position_group(position)
    IN  [k \in 1..Len(cands) |->
            LET t == Terms(cands[k], pos_group, war, age, mx)
            IN  [idx |-> cands[k].idx, war_3yr |-> cands[k].war,
                 is_extension |-> cands[k].is_extension,
                 num |-> t.pos + t.war + t.age + t.year,
                 den |-> mx.war * mx.age * mx.year]]

\* round(similarity, 1), in tenths; a half goes to the even tenth
RoundTenths(num, den) ==
    LET q == (num * 10) \div den
        r == (num * 10) % den
    IN  IF 2 * r > den THEN q + 1
        ELSE IF 2 * r < den THEN q
        ELSE IF q % 2 = 0 THEN q ELSE q + 1

\* a head that returns one record too many
Head_OneMore(scored, n) ==
    LET len == Len(scored)
        before(j, k) ==
            \/ scored[j].num > scored[k].num
            \/ scored[j].num = scored[k].num /\ j < k
        place(k) == Cardinality({j \in 1..len : before(j, k)}) + 1
        sorted == [p \in 1..len |-> scored[CHOOSE k \in 1..len : place(k) = p]]
    IN  SubSeq(sorted, 1, IF n + 1 <= len THEN n + 1 ELSE len)

\* similarity.nlargest(n), and sort(key=lambda x: -x[1]) followed by [:n]:
\* descending scores, equal scores in the order of the table, the first n
NLargest(scored, n) ==
    LET len == Len(scored)
        before(j, k) ==
            \/ scored[j].num > scored[k].num
            \/ scored[j].num = scored[k].num /\ j < k
        place(k) == Cardinality({j \in 1..len : before(j, k)}) + 1
        sorted == [p \in 1..len |-> scored[CHOOSE k \in 1..len : place(k) = p]]
    IN  SubSeq(sorted, 1, IF n <= len THEN n ELSE len)

\* ComparablePlayer(similarity_score=round(similarity, 1), ...): the schema
\* accepts a score from 0 to 100
ValidScore(similarity_score) == similarity_score >= 0 /\ similarity_score <= 1000

\* the comparables built from the top records; building one whose score the
\* schema rejects raises a ValidationError
BuildComparables(pass, top) ==
    LET rows == [p \in 1..Len(top) |->
                    [idx |-> top[p].idx, num |-> top[p].num, den |-> top[p].den,
                     war_3yr |-> top[p].war_3yr,
                     is_extension |-> top[p].is_extension,
                     similarity_score |-> RoundTenths(top[p].num, top[p].den)]]
    IN  [status |-> IF \A p \in 1..Len(rows) : ValidScore(rows[p].similarity_score)
                    THEN "ok" ELSE "ValidationError",
         pass |-> pass,
         top |-> rows]

\* PredictionService._find_comparables(request, is_pitcher, n)
_find_comparables(df, req, pitcher, n) ==
    LET cands == The({SigningCandidates(df, pitcher)})
    IN  IF Len(df) = 0 \/ Len(cands) = 0
        THEN [status |-> "ok", pass |-> "signing", top |-> <<>>]
        ELSE BuildComparables("signing",
                 NLargest(Similarity(cands, req.position, req.war_3yr, req.age), n))

\* find_comparables_by_recent_performance(db, target_recent_war, position,
\* current_age, n)
find_comparables_by_recent_performance(df, target_recent_war, position, current_age, n) ==
    LET cands == The({RecentCandidates(df, is_pitcher(position))})
    IN  IF Len(cands) = 0
        THEN [status |-> "ok", pass |-> "recent", top |-> <<>>]
        ELSE BuildComparables("recent",
                 NLargest(Similarity(cands, position, target_recent_war, current_age), n))

\* self.features[t], self.scalers[t], self.models[t] and self.metrics[t] can
\* be read: a missing entry raises KeyError
HasArtifacts(t) ==
    /\ t \in models
    /\ t \in scalers
    /\ t \in DOMAIN features
    /\ t \in DOMAIN metrics

\* the dictionary predict returns, with the arrays given to the scalers; out
\* holds the outputs of the point, quantile and length models
Prediction(aav_type, length_type, feature_values, out, found) ==
    LET predicted_aav == PointEstimate(aav_type, out.aav)
        interval == Interval(aav_type, predicted_aav, out.low, out.high)
    IN  IF ~HasArtifacts(aav_type) \/ ~HasArtifacts(length_type)
        THEN [status |-> "KeyError"]
        ELSE IF found.status # "ok" THEN [status |-> found.status] ELSE
        [status |-> "ok",
         comparables |-> found.top,
         feature_values |-> feature_values,
         X |-> FeatureArray(feature_values, features[aav_type]),
         X_length |-> FeatureArray(feature_values, features[length_type]),
         predicted_aav |-> predicted_aav,
         predicted_aav_low |-> interval[1],
         predicted_aav_high |-> interval[2],
         predicted_length |-> Max(1, Round(out.length)),
         confidence_score |-> Confidence(metrics[aav_type].within_5m),
         model_accuracy |-> metrics[aav_type].within_5m]

_predict_batter(req, out) ==
    Prediction("batter_aav", "batter_length", BatterFeatureValues(req), out,
               _find_comparables(contracts_df, req, FALSE, 5))

_predict_pitcher(req, out) ==
    Prediction("pitcher_aav", "pitcher_length", PitcherFeatureValues(req), out,
               _find_comparables(contracts_df, req, TRUE, 5))

\* predict: an exception raised on the way is the status of the outcome
predict(req, out) ==
    IF ~loaded THEN [status |-> "Models not loaded"]
    ELSE IF is_pitcher(req.position) THEN _predict_pitcher(req, out)
    ELSE _predict_batter(req, out)

----------------------------------------------------------------------------
(* The artifacts on disk and the requests of the model *)

ModelTypes == {"batter_aav", "batter_length", "pitcher_aav", "pitcher_length"}

\* the feature list train_contract_model.py saves for batters
BatterTrainedFeatures ==
    <<"age_at_signing", "WAR_3yr", "wRC_plus_3yr", "AVG_3yr", "OBP_3yr",
      "SLG_3yr", "HR_3yr", "seasons_with_data", "peak_efficiency", "ISO_3yr",
      "power_consistency", "avg_exit_velo", "barrel_rate", "max_exit_velo",
      "hard_hit_pct", "chase_rate", "whiff_rate", "pos_1B", "pos_2B",
      "pos_3B", "pos_C", "pos_DH", "pos_OF", "pos_SS", "has_statcast">>

\* the feature list train_contract_model.py saves for pitchers
PitcherTrainedFeatures ==
    <<"age_at_signing", "WAR_3yr", "ERA_3yr", "FIP_3yr", "K_9_3yr",
      "BB_9_3yr", "IP_3yr", "seasons_with_data", "peak_efficiency",
      "control_metric", "fb_velocity", "fb_spin", "xera", "k_percent",
      "bb_percent", "whiff_percent_pitcher", "chase_percent_pitcher",
      "is_starter", "has_statcast">>

\* other lists a model file can hold: another order, fewer names, a name the
\* service does not compute
OtherFeatures ==
    [batter_aav |-> <<"has_statcast", "year_signed", "HR_3yr", "age_at_signing">>,
     batter_length |-> <<"WAR_3yr", "pos_SS", "games_played">>,
     pitcher_aav |-> <<"age_at_signing", "WAR_3yr", "ERA_3yr", "has_statcast">>,
     pitcher_length |-> <<"is_starter", "year_signed", "IP_3yr">>]

\* the files load_models needs for a model type, and the ones it can do
\* without
RequiredArtifacts == {"model", "scaler", "features", "metrics"}

AavTypes == {"batter_aav", "pitcher_aav"}

\* the contracts file: absent or empty, or a shortstop signed three years ago
\* and a starter signed for next year
ContractTables ==
    { <<>>,
      << [position |-> "SS", WAR_3yr |-> 5000, has_recent |-> TRUE,
          recent_war_3yr |-> 5000, age_at_signing |-> 30, length |-> 5,
          year_signed |-> CurrentYear - 3],
         [position |-> "SP", WAR_3yr |-> 4000, has_recent |-> TRUE,
          recent_war_3yr |-> 4000, age_at_signing |-> 29, length |-> 5,
          year_signed |-> CurrentYear + 1] >> }

\* a directory with every file of the four model sets; the config files
\* exist when the models were trained on log AAV, the quantile files when
\* quantile models were trained
CompleteDir(trained, log, quant, contracts) ==
    [present |->
        [t \in ModelTypes |->
            RequiredArtifacts
                \cup (IF log THEN {"config"} ELSE {})
                \cup (IF quant /\ t \in AavTypes
                      THEN {"quantile_low", "quantile_high"} ELSE {})],
     corrupt |-> {},
     trained |-> trained,
     is_log |-> log,
     csv_ok |-> TRUE,
     contracts |-> contracts]

CompleteDirs ==
    { CompleteDir(trained, log, quant, contracts) :
        trained \in BOOLEAN, log \in BOOLEAN, quant \in BOOLEAN,
        contracts \in ContractTables }

\* a complete directory with one file removed, one file unreadable, or the
\* contracts file unreadable
FaultyDirs ==
    LET full == CompleteDir(TRUE, TRUE, TRUE, <<>>)
    IN  { [full EXCEPT !.present[t] = @ \ {a}] :
            t \in ModelTypes, a \in RequiredArtifacts }
        \cup UNION { { [full EXCEPT !.corrupt = {<<t, a>>}] : a \in full.present[t] } :
                     t \in ModelTypes }
        \cup { [full EXCEPT !.csv_ok = FALSE] }

ModelsDirs == CompleteDirs \cup FaultyDirs

\* the content of the files
FeaturesFile(d, t) ==
    IF d.trained
    THEN IF t \in {"batter_aav", "batter_length"}
         THEN BatterTrainedFeatures ELSE PitcherTrainedFeatures
    ELSE OtherFeatures[t]

MetricsFile(d, t) ==
    IF d.trained THEN [mae |-> 3000, within_5m |-> 80000]
    ELSE [mae |-> 1000, within_5m |-> 97000]

ConfigFile(d, t) == d.is_log /\ t \in AavTypes

\* joblib.load succeeds on a file that exists and is readable
Loadable(d, t, a) == a \in d.present[t] /\ <<t, a>> \notin d.corrupt

\* dict[k] = v
Put(f, k, v) == [x \in DOMAIN f \cup {k} |-> IF x = k THEN v ELSE f[x]]

\* one joblib.load of a required file: the dictionary entry, or the exception
LoadModelFile(st, t, d) ==
    IF Loadable(d, t, "model") THEN [st EXCEPT !.models = @ \cup {t}]
    ELSE [st EXCEPT !.raised = TRUE]

LoadScalerFile(st, t, d) ==
    IF st.raised THEN st
    ELSE IF Loadable(d, t, "scaler") THEN [st EXCEPT !.scalers = @ \cup {t}]
    ELSE [st EXCEPT !.raised = TRUE]

LoadFeaturesFile(st, t, d) ==
    IF st.raised THEN st
    ELSE IF Loadable(d, t, "features")
    THEN [st EXCEPT !.features = Put(@, t, FeaturesFile(d, t))]
    ELSE [st EXCEPT !.raised = TRUE]

LoadMetricsFile(st, t, d) ==
    IF st.raised THEN st
    ELSE IF Loadable(d, t, "metrics")
    THEN [st EXCEPT !.metrics = Put(@, t, MetricsFile(d, t))]
    ELSE [st EXCEPT !.raised = TRUE]

\* the config if its file exists, is_log_transformed False otherwise
LoadConfigFile(st, t, d) ==
    IF st.raised THEN st
    ELSE IF "config" \notin d.present[t] THEN [st EXCEPT !.configs = Put(@, t, FALSE)]
    ELSE IF Loadable(d, t, "config")
    THEN [st EXCEPT !.configs = Put(@, t, ConfigFile(d, t))]
    ELSE [st EXCEPT !.raised = TRUE]

\* the quantile models of an AAV model, when both files exist
LoadQuantileFiles(st, t, d) ==
    IF st.raised \/ t \notin AavTypes THEN st
    ELSE IF ~({"quantile_low", "quantile_high"} \subseteq d.present[t]) THEN st
    ELSE IF Loadable(d, t, "quantile_low") /\ Loadable(d, t, "quantile_high")
    THEN [st EXCEPT !.quantile_models = @ \cup {t}]
    ELSE [st EXCEPT !.raised = TRUE]

\* the body of the loop of load_models for one model type
LoadType(st, t, d) ==
    IF st.raised \/ "model" \notin d.present[t] THEN st
    ELSE The({ LoadQuantileFiles(s5, t, d) : s5 \in
             { LoadConfigFile(s4, t, d) : s4 \in
             { LoadMetricsFile(s3, t, d) : s3 \in
             { LoadFeaturesFile(s2, t, d) : s2 \in
             { LoadScalerFile(s1, t, d) : s1 \in
             { LoadModelFile(st, t, d) } } } } } })

\* pd.read_csv of the contracts file
LoadContracts(st, d) ==
    IF st.raised THEN st
    ELSE IF d.csv_ok THEN [st EXCEPT !.contracts_df = d.contracts]
    ELSE [st EXCEPT !.raised = TRUE]

\* a flag set as soon as one model is loaded
LoadedFlag_AnyModel(loaded_models) == Cardinality(loaded_models) >= 1

\* len(self.models) >= 4
LoadedFlag(loaded_models) == Cardinality(loaded_models) >= 4

\* load_models on the directory d by a service whose dictionaries are those
\* of st0: the entries are assigned in place, so an entry the call does not
\* come to is left as it was
load_models_on(st0, d) ==
    The({ [st |-> s5, returns |-> ~s5.raised /\ LoadedFlag(s5.models)] : s5 \in
        { LoadContracts(s4, d) : s4 \in
        { LoadType(s3, "pitcher_length", d) : s3 \in
        { LoadType(s2, "pitcher_aav", d) : s2 \in
        { LoadType(s1, "batter_length", d) : s1 \in
        { LoadType(st0, "batter_aav", d) } } } } } })

\* load_models on the directory d by the service as constructed: the
\* dictionaries it leaves, whether it
\* ended in the except branch, and what it returns
load_models(d) ==
    load_models_on([models |-> {}, scalers |-> {}, features |-> <<>>,
                    metrics |-> <<>>, configs |-> <<>>, quantile_models |-> {},
                    contracts_df |-> <<>>, raised |-> FALSE], d)

BatterFields ==
    {"wrc_plus_3yr", "avg_3yr", "obp_3yr", "slg_3yr", "hr_3yr",
     "avg_exit_velo", "barrel_rate", "max_exit_velo", "hard_hit_pct",
     "chase_rate", "whiff_rate"}

PitcherFields ==
    {"era_3yr", "fip_3yr", "k_9_3yr", "bb_9_3yr", "ip_3yr", "fb_velocity",
     "fb_spin", "xera", "k_percent", "bb_percent", "whiff_percent_pitcher",
     "chase_percent_pitcher"}

OptionalFields == BatterFields \cup PitcherFields

\* which optional statistics a request supplies: none, one, a pair, or all of
\* a role
SuppliedSets ==
    {{}} \cup {{f} : f \in OptionalFields}
         \cup {{"avg_exit_velo", "max_exit_velo"}, {"wrc_plus_3yr", "avg_3yr"},
               {"era_3yr", "fip_3yr"}, {"fb_velocity", "fb_spin"}}
         \cup {BatterFields, PitcherFields}

\* a supplied statistic is 0 or 45.0
StatValues == {0, 45000}

StatsChoices ==
    UNION { IF Cardinality(S) <= 2 THEN [S -> StatValues]
            ELSE {[f \in S |-> v] : v \in StatValues} : S \in SuppliedSets }

Positions == {"SS", "rf", "SP", "RP"}

Requests ==
    { [position |-> p, age |-> 30, war_3yr |-> 5000, stats |-> st] :
        p \in Positions, st \in StatsChoices }

\* what the regressors can return for a scaled array
RawOutputs == {-1000, 0, 3000}
QuantileOutputs == {-1000, 3000}
LengthOutputs == {400, 2500}

ModelOutputs(aav_type) ==
    IF ~loaded THEN { [aav |-> 0, low |-> 0, high |-> 0, length |-> 0] }
    ELSE IF aav_type \in quantile_models
    THEN { [aav |-> a, low |-> l, high |-> h, length |-> n] :
             a \in RawOutputs, l \in QuantileOutputs, h \in QuantileOutputs,
             n \in LengthOutputs }
    ELSE { [aav |-> a, low |-> 0, high |-> 0, length |-> n] :
             a \in RawOutputs, n \in LengthOutputs }

InitPredict ==
    /\ models_dir \in ModelsDirs
    /\ Constructed
    /\ ppc = "starting"
    /\ request = NoRequest
    /\ result = NoResult
    /\ NormIdle
    /\ MatchIdle
    /\ RankIdle
    /\ ApiIdle
    /\ StatsIdle
    /\ PipeIdle

\* load_models, called once at startup: an exception leaves _loaded as it was
LoadModels ==
    /\ ppc = "starting"
    /\ \E r \in {load_models(models_dir)} :
          /\ models' = r.st.models
          /\ scalers' = r.st.scalers
          /\ features' = r.st.features
          /\ configs' = r.st.configs
          /\ quantile_models' = r.st.quantile_models
          /\ metrics' = r.st.metrics
          /\ contracts_df' = r.st.contracts_df
          /\ loaded' = IF r.st.raised THEN loaded ELSE LoadedFlag(r.st.models)
    /\ ppc' = "serving"
    /\ UNCHANGED <<models_dir, request, result>>
    /\ UNCHANGED <<normVars, matchVars, rankVars, apiVars, statsVars,
                   pipeVars>>

\* predict(request)
Predict ==
    /\ ppc = "serving"
    /\ \E req \in Requests :
          \E out \in ModelOutputs(IF is_pitcher(req.position)
                                  THEN "pitcher_aav" ELSE "batter_aav") :
              /\ request' = req
              /\ result' = predict(req, out)
    /\ ppc' = "predicted"
    /\ UNCHANGED <<models_dir, resourceVars, loaded>>
    /\ UNCHANGED <<normVars, matchVars, rankVars, apiVars, statsVars,
                   pipeVars>>

\* the response is sent; the service waits for the next request
NextRequest ==
    /\ ppc = "predicted"
    /\ ppc' = "serving"
    /\ request' = NoRequest
    /\ result' = NoResult
    /\ UNCHANGED <<models_dir, resourceVars, loaded>>
    /\ UNCHANGED <<normVars, matchVars, rankVars, apiVars, statsVars,
                   pipeVars>>

NextPredict ==
    \/ LoadModels
    \/ Predict
    \/ NextRequest

SpecPredict == InitPredict /\ [][NextPredict]_vars

----------------------------------------------------------------------------
(* Claims about the prediction service *)

Predicted == ppc = "predicted" /\ result.status = "ok"

AavType == IF is_pitcher(request.position) THEN "pitcher_aav" ELSE "batter_aav"

LengthType == IF is_pitcher(request.position) THEN "pitcher_length" ELSE "batter_length"

\* the array has one entry per name of the list, in the list's order: the
\* value the assembler computed for the name, or 0 for a name it has none for
ArrayFollowsList(X, feature_list) ==
    /\ Len(X) = Len(feature_list)
    /\ \A i \in 1..Len(feature_list) :
          /\ feature_list[i] \in DOMAIN result.feature_values
                => X[i] = result.feature_values[feature_list[i]]
          /\ feature_list[i] \notin DOMAIN result.feature_values => X[i] = 0

\* C7: for every request and every feature list of a model, the array given
\* to the scaler has exactly one entry per name of the list, in the order of
\* the list, looked up by name; a name the assembler does not know gets 0 and
\* is not dropped.  This holds of the AAV array and of the length array, for
\* hitters and for pitchers.
C7_OneEntryPerName ==
    Predicted =>
        /\ ArrayFollowsList(result.X, features[AavType])
        /\ ArrayFollowsList(result.X_length, features[LengthType])

\* a hitter who supplied an exit velocity, under a model whose list has the
\* name year_signed, which the assembler does not compute
C7_Witness ==
    /\ Predicted
    /\ ~is_pitcher(request.position)
    /\ features["batter_aav"][2] = "year_signed"
    /\ "avg_exit_velo" \in DOMAIN request.stats
    /\ result.X = <<1000, 0, 15000, 30000>>
    /\ Len(result.X_length) = 3

\* the same for a pitcher
C7_WitnessPitcher ==
    /\ Predicted
    /\ is_pitcher(request.position)
    /\ features["pitcher_length"][2] = "year_signed"
    /\ result.X_length[2] = 0
    /\ Len(result.X) = 4

\* the feature each optional statistic of a request becomes
StatFeature ==
    [wrc_plus_3yr |-> "wRC_plus_3yr", avg_3yr |-> "AVG_3yr", obp_3yr |-> "OBP_3yr",
     slg_3yr |-> "SLG_3yr", hr_3yr |-> "HR_3yr", avg_exit_velo |-> "avg_exit_velo",
     barrel_rate |-> "barrel_rate", max_exit_velo |-> "max_exit_velo",
     hard_hit_pct |-> "hard_hit_pct", chase_rate |-> "chase_rate",
     whiff_rate |-> "whiff_rate", era_3yr |-> "ERA_3yr", fip_3yr |-> "FIP_3yr",
     k_9_3yr |-> "K_9_3yr", bb_9_3yr |-> "BB_9_3yr", ip_3yr |-> "IP_3yr",
     fb_velocity |-> "fb_velocity", fb_spin |-> "fb_spin", xera |-> "xera",
     k_percent |-> "k_percent", bb_percent |-> "bb_percent",
     whiff_percent_pitcher |-> "whiff_percent_pitcher",
     chase_percent_pitcher |-> "chase_percent_pitcher"]

\* the default each optional statistic has for its role
StatDefault ==
    [wrc_plus_3yr |-> DEFAULT_BATTER_STATS.wrc_plus,
     avg_3yr |-> DEFAULT_BATTER_STATS.avg,
     obp_3yr |-> DEFAULT_BATTER_STATS.obp,
     slg_3yr |-> DEFAULT_BATTER_STATS.slg,
     hr_3yr |-> DEFAULT_BATTER_STATS.hr,
     avg_exit_velo |-> DEFAULT_BATTER_STATS.exit_velo,
     barrel_rate |-> DEFAULT_BATTER_STATS.barrel_rate,
     max_exit_velo |-> DEFAULT_BATTER_STATS.max_exit_velo,
     hard_hit_pct |-> DEFAULT_BATTER_STATS.hard_hit_pct,
     chase_rate |-> DEFAULT_BATTER_STATS.chase_rate,
     whiff_rate |-> DEFAULT_BATTER_STATS.whiff_rate,
     era_3yr |-> DEFAULT_PITCHER_STATS.era,
     fip_3yr |-> DEFAULT_PITCHER_STATS.fip,
     k_9_3yr |-> DEFAULT_PITCHER_STATS.k_9,
     bb_9_3yr |-> DEFAULT_PITCHER_STATS.bb_9,
     ip_3yr |-> DEFAULT_PITCHER_STATS.ip,
     fb_velocity |-> DEFAULT_PITCHER_STATS.fb_velocity,
     fb_spin |-> DEFAULT_PITCHER_STATS.fb_spin,
     xera |-> DEFAULT_PITCHER_STATS.xera,
     k_percent |-> DEFAULT_PITCHER_STATS.k_percent,
     bb_percent |-> DEFAULT_PITCHER_STATS.bb_percent,
     whiff_percent_pitcher |-> DEFAULT_PITCHER_STATS.whiff_percent_pitcher,
     chase_percent_pitcher |-> DEFAULT_PITCHER_STATS.chase_percent_pitcher]

\* the optional statistics the assembler of the request's role reads
RoleFields == IF is_pitcher(request.position) THEN PitcherFields ELSE BatterFields

\* C8: for every optional statistic of a request, the assembled feature is
\* the supplied value whenever one is supplied, a supplied 0 being kept as 0,
\* and the default of the role only when the statistic is absent; a starter
\* of age 30 and WAR 5.0 with no other statistic gets ERA_3yr = 4.00.
C8_SuppliedOrDefault ==
    Predicted =>
        /\ \A f \in RoleFields :
              result.feature_values[StatFeature[f]] =
                  IF f \in DOMAIN request.stats THEN request.stats[f]
                  ELSE StatDefault[f]
        /\ (request.position = "SP" /\ request.stats = <<>>)
              => result.feature_values.ERA_3yr = 4000

\* what the code does keep of C8: an absent statistic gets the default, and a
\* supplied value other than 0 is passed on
C8_AbsentOrNonZero ==
    Predicted =>
        \A f \in RoleFields :
            /\ f \notin DOMAIN request.stats
                  => result.feature_values[StatFeature[f]] = StatDefault[f]
            /\ (f \in DOMAIN request.stats /\ request.stats[f] # 0)
                  => result.feature_values[StatFeature[f]] = request.stats[f]

\* a hitter who supplied 0 home runs is given the default 15
C8_SuppliedZero ==
    /\ Predicted
    /\ request.position = "SS"
    /\ request.stats = [f \in {"hr_3yr"} |-> 0]
    /\ result.feature_values.HR_3yr = 15000

\* the advanced metrics of each role
BatterStatcastFields ==
    {"avg_exit_velo", "barrel_rate", "max_exit_velo", "hard_hit_pct",
     "chase_rate", "whiff_rate"}

PitcherStatcastFields ==
    {"fb_velocity", "fb_spin", "xera", "k_percent", "bb_percent",
     "whiff_percent_pitcher", "chase_percent_pitcher"}

RoleStatcastFields ==
    IF is_pitcher(request.position) THEN PitcherStatcastFields
    ELSE BatterStatcastFields

\* C9: has_statcast is 1 if and only if the request supplies at least one
\* advanced metric of its role, and 0 when it supplies none.
C9_AnyAdvancedMetric ==
    Predicted =>
        result.feature_values.has_statcast =
            IF DOMAIN request.stats \cap RoleStatcastFields # {} THEN 1000 ELSE 0

\* what the code does keep of C9: the flag is 0 when no advanced metric is
\* supplied, and 1 when one of the two the code tests is
C9_TestedMetrics ==
    Predicted =>
        /\ DOMAIN request.stats \cap RoleStatcastFields = {}
              => result.feature_values.has_statcast = 0
        /\ DOMAIN request.stats \cap
              {"avg_exit_velo", "barrel_rate", "fb_velocity", "xera"}
              \cap RoleStatcastFields # {}
              => result.feature_values.has_statcast = 1000

\* a hitter who supplied only a maximum exit velocity has the flag 0
C9_OnlyMaxExitVelo ==
    /\ Predicted
    /\ request.position = "SS"
    /\ DOMAIN request.stats = {"max_exit_velo"}
    /\ result.feature_values.has_statcast = 0

\* C10: whatever the point and quantile regressors return, none of
\* predicted_aav, predicted_aav_low and predicted_aav_high is below the floor
\* 0.5, with quantile models and with the MAE fallback, with and without the
\* log transform.
C10_Floor ==
    Predicted =>
        /\ result.predicted_aav >= 500
        /\ result.predicted_aav_low >= 500
        /\ result.predicted_aav_high >= 500

\* what the code does keep of C10: the low bound is never below the floor
C10_LowFloored == Predicted => result.predicted_aav_low >= 500

\* a point estimate below the floor, with the log transform: exp(-1) - 0.1
C10_PointBelowFloor ==
    /\ Predicted
    /\ configs[AavType]
    /\ result.predicted_aav = 268
    /\ result.predicted_aav_low = 500

----------------------------------------------------------------------------
(* The ranking passes over small contract tables *)

\* WAR at signing, whether recent WAR is known, recent WAR, age at signing
ContractProfiles ==
    { <<5000, TRUE, 5000, 30>>, <<1000, FALSE, 0, 30>>, <<5000, TRUE, 1000, 28>> }

\* signed before, in and after the current year
SigningYearsOfContracts == {CurrentYear - 3, CurrentYear, CurrentYear + 1}

ContractRows ==
    { [position |-> p, WAR_3yr |-> c[1], has_recent |-> c[2],
       recent_war_3yr |-> c[3], age_at_signing |-> c[4], length |-> 5,
       year_signed |-> y] :
        p \in {"SS", "CF", "SP"}, c \in ContractProfiles,
        y \in SigningYearsOfContracts }

RankRequests ==
    { [position |-> p, age |-> 30, war_3yr |-> 5000, stats |-> <<>>] :
        p \in {"SS", "SP"} }

\* n: the callers' 5, and 1
TopNs == {1, 5}

InitRank ==
    /\ rpc = "loading"
    /\ topn = 0
    /\ comparables = NoComparables
    /\ models_dir = NoDir
    /\ models = {}
    /\ scalers = {}
    /\ features = <<>>
    /\ configs = <<>>
    /\ quantile_models = {}
    /\ metrics = <<>>
    /\ loaded = FALSE
    /\ ppc = "idle"
    /\ request = NoRequest
    /\ result = NoResult
    /\ contracts_df = <<>>
    /\ NormIdle
    /\ MatchIdle
    /\ ApiIdle
    /\ StatsIdle
    /\ PipeIdle

\* pd.read_csv / the seeded Contract table: one more row
AddContract ==
    /\ rpc = "loading"
    /\ Len(contracts_df) < MaxContracts
    /\ \E row \in ContractRows : contracts_df' = Append(contracts_df, row)
    /\ UNCHANGED <<models_dir, models, scalers, features, configs, quantile_models>>
    /\ UNCHANGED <<metrics, loaded, ppc>>
    /\ UNCHANGED <<request, result, rankVars, normVars, matchVars, apiVars,
                   statsVars, pipeVars>>

\* a call of _find_comparables
FindComparables ==
    /\ rpc = "loading"
    /\ \E req \in RankRequests, n \in TopNs :
          /\ request' = req
          /\ topn' = n
          /\ comparables' =
                _find_comparables(contracts_df, req, is_pitcher(req.position), n)
    /\ rpc' = "ranked"
    /\ UNCHANGED <<models_dir, resourceVars, loaded, ppc>>
    /\ UNCHANGED <<result, normVars, matchVars, apiVars, statsVars, pipeVars>>

\* a call of find_comparables_by_recent_performance
FindComparablesRecent ==
    /\ rpc = "loading"
    /\ \E req \in RankRequests, n \in TopNs :
          /\ request' = req
          /\ topn' = n
          /\ comparables' =
                find_comparables_by_recent_performance(
                    contracts_df, req.war_3yr, req.position, req.age, n)
    /\ rpc' = "ranked"
    /\ UNCHANGED <<models_dir, resourceVars, loaded, ppc>>
    /\ UNCHANGED <<result, normVars, matchVars, apiVars, statsVars, pipeVars>>

\* the list is returned; the next call sees the same table
NextRanking ==
    /\ rpc = "ranked"
    /\ rpc' = "loading"
    /\ request' = NoRequest
    /\ topn' = 0
    /\ comparables' = NoComparables
    /\ UNCHANGED <<models_dir, resourceVars, loaded, ppc>>
    /\ UNCHANGED <<result, normVars, matchVars, apiVars, statsVars, pipeVars>>

NextRank ==
    \/ AddContract
    \/ FindComparables
    \/ FindComparablesRecent
    \/ NextRanking

SpecRank == InitRank /\ [][NextRank]_vars

----------------------------------------------------------------------------
(* Claims about the ranking passes *)

Ranked == rpc = "ranked"

\* the candidates of the last call, recomputed from the table and the query
RankedCandidates ==
    IF comparables.pass = "signing"
    THEN SigningCandidates(contracts_df, is_pitcher(request.position))
    ELSE RecentCandidates(contracts_df, is_pitcher(request.position))

\* the candidates of the last call with their scores, maxima and terms
RankView ==
    LET cands == RankedCandidates
    IN  IF ~Ranked \/ Len(cands) = 0
        THEN [cands |-> <<>>, scored |-> <<>>, terms |-> <<>>, den |-> 1]
        ELSE LET mx == Maxima(cands, request.war_3yr, request.age)
             IN  [cands |-> cands,
                  scored |-> Similarity(cands, request.position, request.war_3yr,
                                        request.age),
                  terms |-> [k \in 1..Len(cands) |->
                                Terms(cands[k], get_position_group(request.position),
                                      request.war_3yr, request.age, mx)],
                  den |-> mx.war * mx.age * mx.year]

C11_WitnessTruncated ==
    /\ Ranked
    /\ topn = 1
    /\ Len(RankView.cands) = 2
    /\ Len(comparables.top) = 1
    /\ comparables.top[1].idx = 2

\* a row of the other type is left out
C11_WitnessOtherType ==
    /\ Ranked
    /\ topn = 5
    /\ Len(contracts_df) = 2
    /\ contracts_df[1].position = "SP"
    /\ request.position = "SS"
    /\ Len(comparables.top) = 1
    /\ comparables.top[1].idx = 2

\* candidate k has the position, the performance and the age of the query
IsSelf(c) ==
    /\ c.position = request.position
    /\ c.war = request.war_3yr
    /\ c.age = request.age

C12_WitnessLater ==
    /\ Ranked
    /\ \E i, j \in 1..Len(RankView.cands) :
          /\ IsSelf(RankView.cands[i])
          /\ RankView.cands[j].year > RankView.cands[i].year
          /\ RankView.scored[j].num > RankView.scored[i].num

\* C13, as stated: of two candidates with the same age and the same
\* performance at signing, the one signed more recently ranks strictly
\* higher.
C13_MoreRecentHigher ==
    \A v \in {RankView} :
        \A i, j \in 1..Len(v.cands) :
            (/\ v.cands[i].age = v.cands[j].age
             /\ v.cands[i].war = v.cands[j].war
             /\ v.cands[i].year > v.cands[j].year)
                => v.scored[i].num > v.scored[j].num

\* candidates i and j both match, or both miss, the position group of the
\* query
SamePositionTerm(ci, cj) ==
    (ci.group = get_position_group(request.position))
        = (cj.group = get_position_group(request.position))

\* p is returned before q
ReturnedBefore(i, j) ==
    \A p, q \in 1..Len(comparables.top) :
        (comparables.top[p].idx = i /\ comparables.top[q].idx = j) => p < q

\* C13, amended: of two candidates with the same age, the same performance
\* and the same position term, the one signed more recently has the
\* strictly higher score and, when both are returned, comes first.
C13_MoreRecentHigherSamePosition ==
    \A v \in {RankView} :
        \A i, j \in 1..Len(v.cands) :
            (/\ v.cands[i].age = v.cands[j].age
             /\ v.cands[i].war = v.cands[j].war
             /\ SamePositionTerm(v.cands[i], v.cands[j])
             /\ v.cands[i].year > v.cands[j].year)
                => /\ v.scored[i].num > v.scored[j].num
                   /\ ReturnedBefore(v.cands[i].idx, v.cands[j].idx)

\* the later row of the table was signed more recently and is returned first
C13_Witness ==
    /\ Ranked
    /\ Len(comparables.top) = 2
    /\ comparables.top[1].idx = 2
    /\ \E a \in {contracts_df[1]}, b \in {contracts_df[2]} :
          /\ a.position = b.position
          /\ a.age_at_signing = b.age_at_signing
          /\ a.WAR_3yr = b.WAR_3yr
          /\ a.recent_war_3yr = b.recent_war_3yr
          /\ b.year_signed > a.year_signed

\* a shortstop signed earlier outranks a centre fielder of the same age and
\* performance signed later, for a shortstop's query
C13_WitnessOtherPosition ==
    /\ Ranked
    /\ request.position = "SS"
    /\ Len(comparables.top) = 2
    /\ comparables.top[1].idx = 1
    /\ contracts_df[1].position = "SS"
    /\ contracts_df[2].position = "CF"
    /\ contracts_df[1].age_at_signing = contracts_df[2].age_at_signing
    /\ contracts_df[1].WAR_3yr = contracts_df[2].WAR_3yr
    /\ contracts_df[1].year_signed < contracts_df[2].year_signed

\* C14: every comparable of either pass has a similarity score from 0 to 100,
\* whether its year_signed is before, in or after the current year, so that
\* building the ComparablePlayer never fails.
C14_ScoreInRange ==
    Ranked =>
        /\ comparables.status = "ok"
        /\ \A p \in 1..Len(comparables.top) :
              ValidScore(comparables.top[p].similarity_score)

\* what the code does keep of C14: no score is below 0, and none is above
\* 100 when no candidate was signed after the current year
C14_InRangeUnlessFuture ==
    Ranked =>
        /\ \A p \in 1..Len(comparables.top) :
              comparables.top[p].similarity_score >= 0
        /\ (\A k \in 1..Len(RankView.cands) : RankView.cands[k].year <= CurrentYear)
              => comparables.status = "ok"

\* a record identical to the query and signed next year scores 110
C14_ScoreAbove100 ==
    /\ Ranked
    /\ comparables.status = "ValidationError"
    /\ Len(comparables.top) = 1
    /\ contracts_df[comparables.top[1].idx].year_signed = CurrentYear + 1
    /\ comparables.top[1].similarity_score = 1100

\* the ages, performances and signing years of the candidates
AgesOf(cands) == {cands[k].age : k \in 1..Len(cands)}

WarsOf(cands) == {cands[k].war : k \in 1..Len(cands)}

YearsOf(cands) == {cands[k].year : k \in 1..Len(cands)}

\* C15, as stated: a normalisation maximum that is not positive is replaced
\* by 1 and the component then gives its full weight to every candidate: if
\* every candidate has the same age each gets the 15 points of the age term,
\* and likewise 35 points for identical performance and 10 points for an
\* identical signing year.
C15_SameValueFullWeight ==
    \A v \in {RankView} :
        \A k \in 1..Len(v.cands) :
            /\ v.den > 0
            /\ Cardinality(AgesOf(v.cands)) = 1 => v.terms[k].age = 15 * v.den
            /\ Cardinality(WarsOf(v.cands)) = 1 => v.terms[k].war = 35 * v.den
            /\ Cardinality(YearsOf(v.cands)) = 1 => v.terms[k].year = 10 * v.den

\* C15, amended: the denominators are never 0.  A term is at its full weight
\* for every candidate when every candidate has the age of the query (15),
\* the performance of the query (35), or was signed in the current year
\* (10).  Candidates that share a value at a distance from the query's get
\* 0 for the term, each of them; candidates that were all signed in one
\* later year get more than 10, each the same.
C15_ZeroDistanceFullWeight ==
    \A v \in {RankView} :
        \A k \in 1..Len(v.cands) :
            /\ v.den > 0
            /\ AgesOf(v.cands) = {request.age} => v.terms[k].age = 15 * v.den
            /\ WarsOf(v.cands) = {request.war_3yr} => v.terms[k].war = 35 * v.den
            /\ YearsOf(v.cands) = {CurrentYear} => v.terms[k].year = 10 * v.den
            /\ (Cardinality(AgesOf(v.cands)) = 1 /\ v.cands[k].age # request.age)
                  => v.terms[k].age = 0
            /\ (Cardinality(WarsOf(v.cands)) = 1 /\ v.cands[k].war # request.war_3yr)
                  => v.terms[k].war = 0
            /\ (Cardinality(YearsOf(v.cands)) = 1 /\ v.cands[k].year < CurrentYear)
                  => v.terms[k].year = 0
            /\ (Cardinality(YearsOf(v.cands)) = 1 /\ v.cands[k].year > CurrentYear)
                  => v.terms[k].year =
                        10 * (1 + v.cands[k].year - CurrentYear) * v.den

\* two candidates with the age and the performance of the query, both signed
\* in the current year: every maximum is 0 and every term is full
C15_Witness ==
    /\ Ranked
    /\ Len(RankView.cands) = 2
    /\ AgesOf(RankView.cands) = {request.age}
    /\ WarsOf(RankView.cands) = {request.war_3yr}
    /\ YearsOf(RankView.cands) = {CurrentYear}
    /\ RankView.den = 1
    /\ \A k \in 1..2 :
          RankView.terms[k].war + RankView.terms[k].age + RankView.terms[k].year = 60

\* two candidates of one age, two years from the query's: the age term is 0
C15_WitnessSameAgeZero ==
    /\ Ranked
    /\ Len(RankView.cands) = 2
    /\ AgesOf(RankView.cands) = {28}
    /\ request.age = 30
    /\ \A k \in 1..2 : RankView.terms[k].age = 0

----------------------------------------------------------------------------
(* The endpoints: create_prediction (api/predictions.py), process_chat_query
   (api/chat.py) and health_check (main.py).  AAVs are in thousandths of a
   million dollars, as in the service; a response in dollars is that times
   1000, and the two-way context divides it back. *)

\* one call of predict made by a handler: where it was made, the request it
\* was given (reached is FALSE when building the request raised), how it
\* ended, and the point estimate and confidence it returned
Call(path, req, res) ==
    [path |-> path, reached |-> TRUE, request |-> req, status |-> res.status,
     predicted_aav |-> IF res.status = "ok" THEN res.predicted_aav ELSE 0,
     confidence_score |-> IF res.status = "ok" THEN res.confidence_score ELSE 0]

\* PredictionRequest(...) raised: war_3yr is None
NotBuilt(path) ==
    [path |-> path, reached |-> FALSE, request |-> NoRequest,
     status |-> "ValidationError", predicted_aav |-> 0, confidence_score |-> 0]

\* raise HTTPException(status_code=code)
Refuse(endpoint, code, calls) ==
    [NoResponse EXCEPT !.endpoint = endpoint, !.status_code = code,
                       !.calls = calls]

\* "Pitchers require ERA or FIP stats", "Batters require wRC+ or batting
\* average stats": the test of create_prediction
HasRequiredStat(req) ==
    IF is_pitcher(req.position)
    THEN IsNotNone(req, "era_3yr") \/ IsNotNone(req, "fip_3yr")
    ELSE IsNotNone(req, "wrc_plus_3yr") \/ IsNotNone(req, "avg_3yr")

\* x or default: the default replaces None and 0
OrElse(known, x, default) == IF known /\ x # 0 THEN x ELSE default

\* the request create_prediction builds from the recent_* columns of the
\* contract, with the age and position of the form
RecentRequest(req, contract) ==
    [position |-> req.position, age |-> req.age,
     war_3yr |-> OrElse(TRUE, contract.recent_war_3yr, 0),
     stats |-> contract.recent_stats]

\* the second half of create_prediction: the prediction on recent
\* performance and the recent comparables, when the contract has a
\* recent_war_3yr
WithRecent(req, contract, r1, out_recent) ==
    LET c1 == Call("endpoint", req, r1)
        r2 == The({predict(RecentRequest(req, contract), out_recent)})
        c2 == Call("recent", RecentRequest(req, contract), r2)
        found == The({find_comparables_by_recent_performance(
                         contracts_df, contract.recent_war_3yr, req.position,
                         req.age, 5)})
    IN  IF r2.status # "ok" THEN Refuse("predictions", 500, <<c1, c2>>)
        ELSE IF found.status # "ok" THEN Refuse("predictions", 500, <<c1, c2>>)
        ELSE [NoResponse EXCEPT !.endpoint = "predictions", !.status_code = 200,
                                !.calls = <<c1, c2>>,
                                !.predicted_aav = r1.predicted_aav * 1000,
                                !.has_recent = TRUE,
                                !.predicted_aav_recent = r2.predicted_aav * 1000]

\* create_prediction(request): contract is the row found under the name of
\* the request, if any
create_prediction(req, contract, out, out_recent) ==
    IF ~loaded THEN Refuse("predictions", 503, <<>>)
    ELSE IF ~HasRequiredStat(req) THEN Refuse("predictions", 400, <<>>)
    ELSE LET r1 == The({predict(req, out)})
         IN  IF r1.status # "ok"
             THEN Refuse("predictions", 500, <<Call("endpoint", req, r1)>>)
             ELSE IF contract.found /\ contract.has_recent
             THEN WithRecent(req, contract, r1, out_recent)
             ELSE [NoResponse EXCEPT !.endpoint = "predictions",
                                     !.status_code = 200,
                                     !.calls = <<Call("endpoint", req, r1)>>,
                                     !.predicted_aav = r1.predicted_aav * 1000]

\* the request _get_prediction_for_player builds from the row of the player
LookupRequest(player) ==
    [position |-> player.position, age |-> player.age_at_signing,
     war_3yr |-> OrElse(player.war_known, player.war_3yr, 2000),
     stats |-> player.stats]

\* the request _build_two_way_context builds from the pitching averages
TwoWayRequest(pitching) ==
    [position |-> "SP", age |-> 29, war_3yr |-> pitching.war_3yr,
     stats |-> [f \in ({"era_3yr"} \cap pitching.known)
                   \cup ({"ip_3yr"} \cap pitching.known) |-> pitching[f]]]

\* the pitcher_prediction of _build_two_way_context: its predicted_aav, where
\* it comes from, and the call made for it
PitcherPrediction(pitching, out_pitcher) ==
    IF "war_3yr" \notin pitching.known
    THEN [predicted_aav |-> 0, confidence_score |-> 0,
          source |-> "placeholder", call |-> NotBuilt("two_way")]
    ELSE LET r2 == The({predict(TwoWayRequest(pitching), out_pitcher)})
             c2 == Call("two_way", TwoWayRequest(pitching), r2)
         IN  IF r2.status = "ok"
             THEN [predicted_aav |-> r2.predicted_aav,
                   confidence_score |-> r2.confidence_score,
                   source |-> "model", call |-> c2]
             ELSE IF pitching.war_3yr # 0
             THEN [predicted_aav |-> pitching.war_3yr * 8,
                   confidence_score |-> 50000,
                   source |-> "estimate", call |-> c2]
             ELSE [predicted_aav |-> 0, confidence_score |-> 0,
                   source |-> "placeholder", call |-> c2]

\* _build_two_way_context(player_name, primary_prediction, db)
_build_two_way_context(player, c1, out_pitcher) ==
    LET batter_aav == (c1.predicted_aav * 1000) \div 1000
        pitcher_prediction == The({PitcherPrediction(player.pitching, out_pitcher)})
    IN  [NoResponse EXCEPT !.endpoint = "chat", !.status_code = 200,
                           !.calls = <<c1, pitcher_prediction.call>>,
                           !.player_found = TRUE,
                           !.predicted_aav = c1.predicted_aav * 1000,
                           !.is_two_way_player = TRUE,
                           !.batter_aav = batter_aav,
                           !.pitcher_aav = pitcher_prediction.predicted_aav,
                           !.pitcher_source = pitcher_prediction.source,
                           !.batter_confidence = c1.confidence_score,
                           !.pitcher_confidence =
                               pitcher_prediction.confidence_score,
                           !.combined_aav =
                               batter_aav + pitcher_prediction.predicted_aav]

\* process_chat_query(chat_request): player is the row found for the name
\* extracted from the query, if any
process_chat_query(player, out, out_pitcher) ==
    IF ~player.found
    THEN [NoResponse EXCEPT !.endpoint = "chat", !.status_code = 200]
    ELSE LET r1 == The({predict(LookupRequest(player), out)})
             c1 == Call("chat", LookupRequest(player), r1)
         IN  IF r1.status # "ok" THEN Refuse("chat", 500, <<c1>>)
             ELSE IF player.two_way
             THEN _build_two_way_context(player, c1, out_pitcher)
             ELSE [NoResponse EXCEPT !.endpoint = "chat", !.status_code = 200,
                                     !.calls = <<c1>>,
                                     !.player_found = TRUE,
                                     !.predicted_aav = c1.predicted_aav * 1000]

\* health_check()
health_check ==
    [NoResponse EXCEPT !.endpoint = "health", !.status_code = 200,
                       !.health_status = IF loaded THEN "ok" ELSE "degraded",
                       !.models_loaded = loaded]

\* the averages get_two_way_stats returns for the pitching seasons; a key
\* outside known holds None
Pitching(known, war_3yr) ==
    [known |-> known, war_3yr |-> war_3yr, era_3yr |-> 3500, ip_3yr |-> 45000]

NoPitching == Pitching({}, 0)

\* no row under the name
NoPlayer ==
    [found |-> FALSE, position |-> "", age_at_signing |-> 0,
     war_known |-> FALSE, war_3yr |-> 0, stats |-> <<>>, has_recent |-> FALSE,
     recent_war_3yr |-> 0, recent_stats |-> <<>>, two_way |-> FALSE,
     pitching |-> NoPitching]

\* the rows of the Contract table the endpoints can find: a shortstop with
\* recent seasons, a starter, a designated hitter who also pitches, and a
\* two-way player whose contract is a starter's
DbPlayers ==
    { [NoPlayer EXCEPT !.found = TRUE, !.position = "SS",
                       !.age_at_signing = 30, !.war_known = TRUE,
                       !.war_3yr = 5000,
                       !.stats = [f \in {"wrc_plus_3yr"} |-> 45000],
                       !.has_recent = TRUE, !.recent_war_3yr = 5000,
                       !.recent_stats = rs] :
        rs \in {<<>>, [f \in {"wrc_plus_3yr"} |-> 45000]} }
    \cup
    { [NoPlayer EXCEPT !.found = TRUE, !.position = "SP",
                       !.age_at_signing = 29, !.war_known = wk,
                       !.war_3yr = 4000, !.stats = st] :
        wk \in BOOLEAN, st \in {<<>>, [f \in {"era_3yr"} |-> 45000]} }
    \cup
    { [NoPlayer EXCEPT !.found = TRUE, !.position = "DH",
                       !.age_at_signing = 29, !.war_known = TRUE,
                       !.war_3yr = 5000,
                       !.stats = [f \in {"wrc_plus_3yr"} |-> 45000],
                       !.two_way = TRUE, !.pitching = p] :
        p \in { Pitching({"war_3yr", "era_3yr", "ip_3yr"}, 4000),
                Pitching({"war_3yr", "era_3yr", "ip_3yr"}, 0),
                Pitching({"war_3yr", "ip_3yr"}, 4000),
                Pitching({"era_3yr", "ip_3yr"}, 0) } }
    \cup
    { [NoPlayer EXCEPT !.found = TRUE, !.position = "SP",
                       !.age_at_signing = 29, !.war_known = TRUE,
                       !.war_3yr = 4000,
                       !.stats = [f \in {"era_3yr"} |-> 45000],
                       !.two_way = TRUE,
                       !.pitching =
                           Pitching({"war_3yr", "era_3yr", "ip_3yr"}, 4000)] }

\* the bodies posted to create_prediction
ApiRequests ==
    { [position |-> p, age |-> 30, war_3yr |-> 5000, stats |-> st] :
        p \in {"SS", "SP"},
        st \in {<<>>, [f \in {"wrc_plus_3yr"} |-> 45000],
                [f \in {"era_3yr"} |-> 45000]} }

\* what the regressors return during a call of a handler
ApiOutputs ==
    { [aav |-> a, low |-> -1000, high |-> 3000, length |-> 2500] :
        a \in {0, 3000} }

\* the application after construction, before the startup event
InitApi ==
    /\ models_dir \in ModelsDirs
    /\ Constructed
    /\ ppc = "starting"
    /\ request = NoRequest
    /\ result = NoResult
    /\ apc = "waiting"
    /\ response = NoResponse
    /\ NormIdle
    /\ MatchIdle
    /\ RankIdle
    /\ StatsIdle
    /\ PipeIdle

\* POST /predictions
CreatePredictionCall ==
    /\ ppc = "serving"
    /\ apc = "waiting"
    /\ \E req \in ApiRequests, contract \in DbPlayers \cup {NoPlayer} :
          \E out \in ApiOutputs, out_recent \in ApiOutputs :
              response' = create_prediction(req, contract, out, out_recent)
    /\ apc' = "answered"
    /\ UNCHANGED <<normVars, matchVars, predictVars, rankVars, statsVars,
                   pipeVars>>

\* POST /chat/query
ChatCall ==
    /\ ppc = "serving"
    /\ apc = "waiting"
    /\ \E player \in DbPlayers \cup {NoPlayer} :
          \E out \in ApiOutputs, out_pitcher \in ApiOutputs :
              response' = process_chat_query(player, out, out_pitcher)
    /\ apc' = "answered"
    /\ UNCHANGED <<normVars, matchVars, predictVars, rankVars, statsVars,
                   pipeVars>>

\* GET /health
HealthCall ==
    /\ ppc = "serving"
    /\ apc = "waiting"
    /\ response' = health_check
    /\ apc' = "answered"
    /\ UNCHANGED <<normVars, matchVars, predictVars, rankVars, statsVars,
                   pipeVars>>

\* the response is sent; the application waits for the next call
NextCall ==
    /\ apc = "answered"
    /\ apc' = "waiting"
    /\ response' = NoResponse
    /\ UNCHANGED <<normVars, matchVars, predictVars, rankVars, statsVars,
                   pipeVars>>

NextApi ==
    \/ LoadModels
    \/ CreatePredictionCall
    \/ ChatCall
    \/ HealthCall
    \/ NextCall

SpecApi == InitApi /\ [][NextApi]_vars

----------------------------------------------------------------------------
(* Claims about the endpoints *)

Answered == apc = "answered"

\* a chat answer that carries the two predictions of a two-way player
TwoWayAnswered ==
    /\ Answered
    /\ response.endpoint = "chat"
    /\ response.status_code = 200
    /\ response.is_two_way_player

\* a call of predict that went past the loaded test, so that the features
\* were assembled
Assembled(c) == c.reached /\ c.status # "Models not loaded"

\* C16: the combined AAV reported for a two-way player is the exact sum of
\* the hitter-role and the pitcher-role point estimates, each of them computed
\* by the model in a call of predict, with nothing substituted for either
C16_CombinedIsSumOfModelEstimates ==
    TwoWayAnswered =>
        /\ Len(response.calls) = 2
        /\ \A k \in 1..2 : response.calls[k].status = "ok"
        /\ response.combined_aav =
               response.calls[1].predicted_aav + response.calls[2].predicted_aav

\* when both calls of predict succeed, the combined AAV is their sum
C16_SumWhenBothSucceed ==
    (TwoWayAnswered /\ \A k \in 1..2 : response.calls[k].status = "ok") =>
        /\ response.pitcher_source = "model"
        /\ response.combined_aav =
               response.calls[1].predicted_aav + response.calls[2].predicted_aav

\* both terms come from the model
C16_BothFromModel ==
    /\ TwoWayAnswered
    /\ response.pitcher_source = "model"
    /\ response.calls[2].status = "ok"

\* the pitcher term is 8 times the pitching WAR: predict raised
C16_PitcherTermEstimated ==
    /\ TwoWayAnswered
    /\ response.pitcher_source = "estimate"
    /\ response.calls[2].status = "ValidationError"
    /\ response.pitcher_aav = 8 * response.calls[2].request.war_3yr
    /\ response.combined_aav = response.batter_aav + response.pitcher_aav

\* the pitcher term is the placeholder 0: the request could not be built
C16_PitcherTermPlaceholder ==
    /\ TwoWayAnswered
    /\ response.pitcher_source = "placeholder"
    /\ ~response.calls[2].reached
    /\ response.combined_aav = response.batter_aav

\* C17: a failure of any prediction step aborts the whole request: no answer
\* with status 200 contains a step that failed
C17_FailureAborts ==
    (Answered /\ response.status_code = 200) =>
        \A k \in 1..Len(response.calls) : response.calls[k].status = "ok"

\* create_prediction aborts on a failure of either of its predictions
C17_EndpointAborts ==
    (Answered /\ response.endpoint = "predictions"
              /\ response.status_code = 200) =>
        \A k \in 1..Len(response.calls) : response.calls[k].status = "ok"

\* an answer with status 200 whose second step failed
C17_AnsweredAfterFailure ==
    /\ TwoWayAnswered
    /\ response.calls[1].status = "ok"
    /\ response.calls[2].status = "ValidationError"

\* C18: on every path that reaches predict, a pitcher request with neither
\* ERA nor FIP and a hitter request with neither wRC+ nor AVG is rejected
\* before the features are assembled
C18_RequiredStatOnEveryPath ==
    Answered =>
        \A k \in 1..Len(response.calls) :
            Assembled(response.calls[k]) =>
                HasRequiredStat(response.calls[k].request)

\* the request posted to create_prediction is tested before predict
C18_EndpointRequestTested ==
    Answered =>
        \A k \in 1..Len(response.calls) :
            (response.calls[k].path = "endpoint" /\ Assembled(response.calls[k]))
                => HasRequiredStat(response.calls[k].request)

\* a prediction made on the path from a request without the required
\* statistic
Untested(path) ==
    /\ Answered
    /\ \E k \in 1..Len(response.calls) :
          /\ response.calls[k].path = path
          /\ response.calls[k].status = "ok"
          /\ ~HasRequiredStat(response.calls[k].request)

C18_UntestedRecent == Untested("recent")

C18_UntestedChat == Untested("chat")

C18_UntestedTwoWay == Untested("two_way")

\* a required artifact of one of the four model sets is missing or cannot
\* be loaded
HasFault(d) ==
    \E t \in ModelTypes, a \in RequiredArtifacts : ~Loadable(d, t, a)

\* C19: when a required artifact is missing or fails to load at startup,
\* load_models returns false and is_loaded is false; while is_loaded is false
\* predict raises "Models not loaded", the prediction endpoint answers 503,
\* health reports degraded, and no prediction is served
C19_NotLoadedNeverServes ==
    /\ (ppc = "serving" /\ HasFault(models_dir)) =>
           /\ ~loaded
           /\ ~load_models(models_dir).returns
    /\ (Answered /\ ~loaded) =>
           /\ \A k \in 1..Len(response.calls) :
                  /\ response.calls[k].reached
                  /\ response.calls[k].status = "Models not loaded"
           /\ response.endpoint = "predictions" => response.status_code = 503
           /\ response.endpoint = "health" =>
                  /\ response.health_status = "degraded"
                  /\ ~response.models_loaded
           /\ response.endpoint = "chat" =>
                  \/ response.status_code = 500
                  \/ ~response.player_found
           /\ response.predicted_aav = 0
           /\ response.combined_aav = 0

\* the prediction endpoint answers 503 after a startup with a faulty artifact
C19_Witness ==
    /\ Answered
    /\ HasFault(models_dir)
    /\ ~loaded
    /\ response.endpoint = "predictions"
    /\ response.status_code = 503

\* predict raises in the chat handler, which answers 500
C19_WitnessChat ==
    /\ Answered
    /\ HasFault(models_dir)
    /\ response.endpoint = "chat"
    /\ response.status_code = 500
    /\ Len(response.calls) = 1
    /\ response.calls[1].status = "Models not loaded"

C19_WitnessHealth ==
    /\ Answered
    /\ HasFault(models_dir)
    /\ response.endpoint = "health"
    /\ response.health_status = "degraded"

----------------------------------------------------------------------------
(* Claims about what a request leaves unchanged *)

\* a step that is a call of find_player_match
IsFindPlayerMatch == mpc # "matched" /\ mpc' = "matched"

\* C20: predict, _find_comparables and find_player_match leave the resources
\* of the process unchanged, and the table passed to find_player_match is not
\* modified: it has the same rows and the same columns after the call
C20_TablePassedUnchanged ==
    [][IsFindPlayerMatch => UNCHANGED <<stats_df, hasNormCol, normCol>>]_vars

\* find_player_match leaves the rows of the table, and a _normalized_name
\* column that was there, as they were
C20_RowsUnchanged ==
    [][IsFindPlayerMatch =>
          /\ UNCHANGED stats_df
          /\ hasNormCol => UNCHANGED <<hasNormCol, normCol>>]_vars

\* a table that has no _normalized_name column has one after the call
C20_ColumnAdded ==
    /\ Matched
    /\ Len(stats_df) > 0
    /\ hasNormCol
    /\ normCol = ComputeKeys(stats_df)

\* after startup the dictionaries of the service and its contracts table are
\* what load_models left, whatever requests were served
C20_ResourcesAsLoaded ==
    ppc # "starting" =>
        \A st \in {load_models(models_dir).st} :
            /\ models = st.models
            /\ scalers = st.scalers
            /\ features = st.features
            /\ metrics = st.metrics
            /\ configs = st.configs
            /\ quantile_models = st.quantile_models
            /\ contracts_df = st.contracts_df

----------------------------------------------------------------------------
(* Further claims about the prediction service *)

\* C22: the confidence_score of a result is min(accuracy, 95), accuracy
\* being the within_5m metric saved with the AAV model: never above
\* MAX_CONFIDENCE_SCORE; model_accuracy is the metric itself
C22_ConfidenceCapped ==
    Predicted =>
        /\ result.model_accuracy = metrics[AavType].within_5m
        /\ result.confidence_score =
               (IF result.model_accuracy <= MAX_CONFIDENCE_SCORE * 1000
                THEN result.model_accuracy ELSE MAX_CONFIDENCE_SCORE * 1000)
        /\ result.confidence_score <= MAX_CONFIDENCE_SCORE * 1000

\* a metric of 97 is reported as a confidence of 95
C22_Witness ==
    /\ Predicted
    /\ result.model_accuracy = 97000
    /\ result.confidence_score = 95000

\* a metric of 80 is reported as it is
C22_WitnessBelowCap ==
    /\ Predicted
    /\ result.model_accuracy = 80000
    /\ result.confidence_score = 80000

\* C29: every result of predict has
\* predicted_aav_low <= predicted_aav <= predicted_aav_high, with the MAE
\* fallback and with quantile models
C29_IntervalContainsPoint ==
    Predicted =>
        /\ result.predicted_aav_low <= result.predicted_aav
        /\ result.predicted_aav <= result.predicted_aav_high

\* with the MAE fallback the high bound is never below the point estimate
C29_FallbackHighAbovePoint ==
    (Predicted /\ AavType \notin quantile_models) =>
        result.predicted_aav <= result.predicted_aav_high

\* MAE fallback: a point estimate of 0 with a low bound raised to 0.5
C29_PointBelowLow ==
    /\ Predicted
    /\ AavType \notin quantile_models
    /\ result.predicted_aav = 0
    /\ result.predicted_aav_low = 500

\* quantile models: the high quantile below the point estimate
C29_HighBelowPoint ==
    /\ Predicted
    /\ AavType \in quantile_models
    /\ result.predicted_aav_high < result.predicted_aav

----------------------------------------------------------------------------
(* The role of a position: predictions for every position label *)

\* the labels of POSITION_GROUPS, two lower-case spellings and a label the
\* table does not have
PositionLabels == DOMAIN POSITION_GROUPS \cup {"rf", "sp", "UT"}

RoleRequests ==
    { [position |-> p, age |-> 30, war_3yr |-> 5000, stats |-> <<>>] :
        p \in PositionLabels }

\* predict(request) for a request of any position label
PredictRole ==
    /\ ppc = "serving"
    /\ \E req \in RoleRequests :
          \E out \in ApiOutputs :
              /\ request' = req
              /\ result' = predict(req, out)
    /\ ppc' = "predicted"
    /\ UNCHANGED <<models_dir, resourceVars, loaded>>
    /\ UNCHANGED <<normVars, matchVars, rankVars, apiVars, statsVars,
                   pipeVars>>

NextRole ==
    \/ LoadModels
    \/ PredictRole
    \/ NextRequest

SpecRole == InitPredict /\ [][NextRole]_vars

HitterGroups == {"1B", "2B", "3B", "C", "DH", "OF", "SS"}

\* the name of the indicator of a position group
Indicator ==
    [1B |-> "pos_1B", 2B |-> "pos_2B", 3B |-> "pos_3B", C |-> "pos_C",
     DH |-> "pos_DH", OF |-> "pos_OF", SS |-> "pos_SS"]

\* the pos_* indicators of a feature dictionary that are 1
IndicatorsSet(feature_values) ==
    {g \in HitterGroups : feature_values[Indicator[g]] = 1000}

\* C24: the position of a request has one role, applied consistently: for a
\* pitcher label the pitcher features are assembled and is_starter is 1
\* exactly when the position group is SP; for a hitter label the hitter
\* features are assembled and exactly one pos_* indicator is 1, that of the
\* position group
C24_OneRoleApplied ==
    Predicted =>
        \A g \in {get_position_group(request.position)} :
            IF is_pitcher(request.position)
            THEN /\ g \in {"SP", "RP"}
                 /\ "is_starter" \in DOMAIN result.feature_values
                 /\ (result.feature_values.is_starter = 1000) <=> (g = "SP")
            ELSE /\ g \in HitterGroups
                 /\ "is_starter" \notin DOMAIN result.feature_values
                 /\ IndicatorsSet(result.feature_values) = {g}

\* the part of C24 about hitters, and the family of pitchers
C24_HitterIndicatorAndFamily ==
    Predicted =>
        \A g \in {get_position_group(request.position)} :
            IF is_pitcher(request.position)
            THEN /\ g \in {"SP", "RP"}
                 /\ "is_starter" \in DOMAIN result.feature_values
            ELSE /\ g \in HitterGroups
                 /\ "is_starter" \notin DOMAIN result.feature_values
                 /\ IndicatorsSet(result.feature_values) = {g}

\* the generic pitcher label P: group SP, is_starter 0
C24_GenericPitcherNotStarter ==
    /\ Predicted
    /\ request.position = "P"
    /\ get_position_group(request.position) = "SP"
    /\ result.feature_values.is_starter = 0

\* an unknown label is an outfielder
C24_UnknownIsOutfield ==
    /\ Predicted
    /\ request.position = "UT"
    /\ IndicatorsSet(result.feature_values) = {"OF"}

----------------------------------------------------------------------------
(* Further claims about the endpoints *)

\* C25: for a two-way player the figure reported for the batting role comes
\* from a prediction under a hitter position and the figure reported for the
\* pitching role from a prediction under a pitcher position, whatever the
\* position of the stored contract, and each role's confidence is the one of
\* its own prediction
C25_EachRoleByItsModel ==
    TwoWayAnswered =>
        /\ Len(response.calls) = 2
        /\ response.calls[1].status = "ok"
        /\ ~is_pitcher(response.calls[1].request.position)
        /\ response.batter_aav = response.calls[1].predicted_aav
        /\ response.batter_confidence = response.calls[1].confidence_score
        /\ response.calls[2].status = "ok"
        /\ is_pitcher(response.calls[2].request.position)
        /\ response.pitcher_aav = response.calls[2].predicted_aav
        /\ response.pitcher_confidence = response.calls[2].confidence_score

\* the two confidences are never combined: the batting one is that of the
\* first prediction; the pitching one is that of the second prediction, 50
\* with the WAR estimate, 0 with the placeholder
C25_ConfidencesSeparate ==
    TwoWayAnswered =>
        /\ response.batter_confidence = response.calls[1].confidence_score
        /\ response.pitcher_confidence =
               (CASE response.pitcher_source = "model" ->
                         response.calls[2].confidence_score
                  [] response.pitcher_source = "estimate" -> 50000
                  [] OTHER -> 0)

\* the contract of the two-way player is a starter's: the figure reported
\* for the batting role comes from the pitcher model
C25_BattingFigureFromPitcherModel ==
    /\ TwoWayAnswered
    /\ is_pitcher(response.calls[1].request.position)
    /\ response.batter_aav = response.calls[1].predicted_aav
    /\ response.pitcher_source = "model"

----------------------------------------------------------------------------
(* The two ranking passes on one table whose recent WAR is the WAR at
   signing *)

\* WAR (at signing and recent), age at signing, length
EqualProfiles == { <<5000, 30, 5>>, <<1000, 24, 8>>, <<5000, 24, 3>> }

\* rows with an upper-case label and with the label sp as a file can hold it
EqualRows ==
    { [position |-> p, WAR_3yr |-> c[1], has_recent |-> TRUE,
       recent_war_3yr |-> c[1], age_at_signing |-> c[2], length |-> c[3],
       year_signed |-> y] :
        p \in {"CF", "SP", "sp"}, c \in EqualProfiles,
        y \in {CurrentYear - 3, CurrentYear} }

BothRequests ==
    { [position |-> p, age |-> 30, war_3yr |-> 5000, stats |-> <<>>] :
        p \in {"CF", "SP"} }

\* one more row of the table
AddEqualContract ==
    /\ rpc = "loading"
    /\ Len(contracts_df) < MaxContracts
    /\ \E row \in EqualRows : contracts_df' = Append(contracts_df, row)
    /\ UNCHANGED <<models_dir, models, scalers, features, configs, quantile_models>>
    /\ UNCHANGED <<metrics, loaded, ppc>>
    /\ UNCHANGED <<request, result, rankVars, normVars, matchVars, apiVars,
                   statsVars, pipeVars>>

\* _find_comparables and find_comparables_by_recent_performance called for
\* the same query on the same table; the outcome of the second is kept in
\* the field recent
FindComparablesBoth ==
    /\ rpc = "loading"
    /\ \E req \in BothRequests, n \in TopNs :
          /\ request' = req
          /\ topn' = n
          /\ \E s \in {_find_comparables(contracts_df, req,
                                         is_pitcher(req.position), n)},
                r \in {find_comparables_by_recent_performance(
                           contracts_df, req.war_3yr, req.position, req.age, n)} :
                comparables' = [status |-> s.status, pass |-> "both",
                                top |-> s.top, recent |-> r]
    /\ rpc' = "ranked"
    /\ UNCHANGED <<models_dir, resourceVars, loaded, ppc>>
    /\ UNCHANGED <<result, normVars, matchVars, apiVars, statsVars, pipeVars>>

NextBoth ==
    \/ AddEqualContract
    \/ FindComparablesBoth
    \/ NextRanking

SpecBoth == InitRank /\ [][NextBoth]_vars

RankedBoth == rpc = "ranked" /\ comparables.pass = "both"

\* every record has a recent WAR, equal to its WAR at signing
RecentEqualsSigning(df) ==
    \A i \in 1..Len(df) : df[i].has_recent /\ df[i].recent_war_3yr = df[i].WAR_3yr

\* what a list of comparables shows: the records in order, with their WAR,
\* score and extension flag
Shown(top) ==
    [p \in 1..Len(top) |->
        [idx |-> top[p].idx, war_3yr |-> top[p].war_3yr,
         similarity_score |-> top[p].similarity_score,
         is_extension |-> top[p].is_extension]]

SamePasses ==
    /\ comparables.status = comparables.recent.status
    /\ Shown(comparables.top) = Shown(comparables.recent.top)

\* every label of the table is written in upper case
UpperCaseLabels(df) ==
    \A i \in 1..Len(df) : PositionUpper(df[i].position) = df[i].position

\* C26: on a table in which every record has a recent WAR equal to its WAR at
\* signing, find_comparables_by_recent_performance and _find_comparables
\* return for every query the same records in the same order with the same
\* similarity scores and extension flags
C26_RecentSameAsSigning ==
    (RankedBoth /\ RecentEqualsSigning(contracts_df)) => SamePasses

\* the two passes agree on the tables whose labels are in upper case
C26_SameOnUpperCaseLabels ==
    (RankedBoth /\ RecentEqualsSigning(contracts_df)
                /\ UpperCaseLabels(contracts_df)) => SamePasses

\* a row labelled sp for a centre fielder's query: an outfielder for the
\* pass at signing, a starter for the recent pass
C26_LowerCaseLabelDiffers ==
    /\ RankedBoth
    /\ request.position = "CF"
    /\ Len(contracts_df) = 1
    /\ contracts_df[1].position = "sp"
    /\ contracts_df[1].year_signed = CurrentYear
    /\ contracts_df[1].WAR_3yr = 5000
    /\ contracts_df[1].age_at_signing = 30
    /\ comparables.top[1].similarity_score = 1000
    /\ comparables.recent.top[1].similarity_score = 600

\* the passes agree on a table with an extension among its records
C26_SameWithExtension ==
    /\ RankedBoth
    /\ UpperCaseLabels(contracts_df)
    /\ Len(comparables.top) = 2
    /\ ~comparables.top[1].is_extension
    /\ comparables.top[2].is_extension
    /\ SamePasses

----------------------------------------------------------------------------
(* Further claims about find_player_match *)

\* the key has the name as one of its whitespace-delimited tokens
WholeToken(k, name) == \E j \in 1..Len(Split(k)) : Split(k)[j] = name

\* the key has the name as its first or its last token, and another token
\* beside it
EdgeToken(k, name) ==
    /\ Len(Split(k)) >= 2
    /\ \/ Split(k)[1] = name
       \/ Split(k)[Len(Split(k))] = name

\* the key has the name as a token that is neither its first nor its last
MiddleToken(k, name) ==
    \E j \in 2..(Len(Split(k)) - 1) : Split(k)[j] = name

\* the in-range rows whose key has the last name of the query as a token
TokenRows(v) == SelectSeq(v.inRange, LAMBDA i : WholeToken(normCol[i], v.last))

EdgeRows(v) == SelectSeq(v.inRange, LAMBDA i : EdgeToken(normCol[i], v.last))

\* the lookup came to strategy 3
ReachedStrategy3(v) ==
    /\ Len(v.inRange) > 0
    /\ v.last # <<>>
    /\ ~Accepts1(v)
    /\ ~Accepts2(v)

\* what strategy 3 returns when its match is the rows given
Strategy3On(rows, v) ==
    LET refined == SelectSeq(rows, LAMBDA i : Contains(normCol[i], v.first))
    IN  IF Cardinality(Names(rows)) = 1
        THEN match = Found(rows, "unique_last_name")
        ELSE IF Len(rows) > 0 /\ v.first # <<>> /\ Len(refined) > 0
        THEN match = Found(refined, "last_name_partial_first")
        ELSE match.none \/ match.tag \notin {"unique_last_name",
                                            "last_name_partial_first"}

\* C27 as stated: strategy 3 of find_player_match matches the rows whose key
\* has the surname of the query as a whole whitespace-delimited token at any
\* position (first, middle or last); it accepts them when they carry one
\* distinct name, otherwise it narrows them by the first name and accepts
\* what remains if anything does.
C27_WholeTokenAnyPosition ==
    Matched => \A v \in {LookupView} :
        ReachedStrategy3(v) =>
            /\ v.rows3 = TokenRows(v)
            /\ Strategy3On(TokenRows(v), v)

\* what holds instead: the rows of strategy 3 are those whose key has the
\* surname as its first or last token beside another token, never those that
\* have it only as a substring of a token; acceptance is as stated
C27_EdgeTokenOnly ==
    Matched => \A v \in {LookupView} :
        ReachedStrategy3(v) =>
            /\ v.rows3 = EdgeRows(v)
            /\ Strategy3On(EdgeRows(v), v)

\* a lookup came to strategy 3 and an in-range key has the surname as a
\* middle token only: strategy 3 does not match the row
C27_MiddleTokenNotMatched ==
    /\ Matched
    /\ \E v \in {LookupView} :
          /\ ReachedStrategy3(v)
          /\ \E j \in 1..Len(v.inRange) :
                /\ MiddleToken(normCol[v.inRange[j]], v.last)
                /\ ~EdgeToken(normCol[v.inRange[j]], v.last)
                /\ \A i \in 1..Len(v.rows3) : v.rows3[i] # v.inRange[j]
          /\ ~match.none
          /\ match.tag # "unique_last_name"

\* strategy 3 accepted on rows whose key ends with the surname while another
\* in-range key has the surname only inside a longer token
C27_SubstringNotMatched ==
    /\ Matched
    /\ \E v \in {LookupView} :
          /\ ReachedStrategy3(v)
          /\ match = Found(v.rows3, "unique_last_name")
          /\ \E j \in 1..Len(v.inRange) :
                /\ Contains(normCol[v.inRange[j]], v.last)
                /\ ~WholeToken(normCol[v.inRange[j]], v.last)

----------------------------------------------------------------------------
(* The yearly statistics: seed_database.py fills the table                *)
(* PlayerYearlyStats with a key computed by normalize_name; StatsService   *)
(* and ContextService look a player up in it.                              *)

SEASON_END_MONTH == 10

\* get_recent_completed_seasons(3) in the month given
get_recent_completed_seasons(month) ==
    LET last_complete_season ==
            IF month >= SEASON_END_MONTH THEN CurrentYear ELSE CurrentYear - 1
    IN  (last_complete_season - 2)..last_complete_season

\* normalize_name of seed_database.py: the shared function behind a test
\* for missing values
seed_normalize_name(name) == IF name = NaN THEN <<>> ELSE normalize_name(name)

JoseLeePlain == <<"J", "o", "s", "e", " ", "L", "e", "e">>

\* the names of the FanGraphs seasons that are seeded
SeededNames == {AaronJudge, JoseLee, JoseRamirezJr}

SeededSeasons == {CurrentYear - 1, CurrentYear - 4}

\* the names looked up
LookupNames ==
    {AaronJudge, LowerStr(AaronJudge), <<" ">> \o AaronJudge, JoseLee,
     JoseLeePlain, JoseRamirezJr, BoSmith}

Months == {9, 10}

InitStats ==
    /\ yearly_stats = <<>>
    /\ spc = "seeding"
    /\ stats_lookup = NoLookup
    /\ NormIdle
    /\ MatchIdle
    /\ PredictIdle
    /\ RankIdle
    /\ ApiIdle
    /\ PipeIdle

\* seed_yearly_stats: one more season of a batter or a pitcher
SeedSeason ==
    /\ spc = "seeding"
    /\ Len(yearly_stats) < MaxRows
    /\ \E n \in SeededNames : \E y \in SeededSeasons : \E p \in BOOLEAN :
          yearly_stats' = Append(yearly_stats,
              [player_name |-> n, normalized_name |-> seed_normalize_name(n),
               season |-> y, is_pitcher |-> p])
    /\ UNCHANGED <<spc, stats_lookup>>
    /\ UNCHANGED <<normVars, matchVars, predictVars, rankVars, apiVars,
                   pipeVars>>

RowNumbers(table) == [i \in 1..Len(table) |-> i]

\* order_by(season): the row numbers by ascending season, table order kept
\* among equal seasons
RECURSIVE BySeason(_, _)
BySeason(table, rows) ==
    IF rows = <<>> THEN <<>>
    ELSE LET earliest == Min({table[rows[j]].season : j \in 1..Len(rows)})
         IN  SelectSeq(rows, LAMBDA i : table[i].season = earliest)
             \o BySeason(table, SelectSeq(rows, LAMBDA i : table[i].season # earliest))

\* order_by(season.desc())
RECURSIVE BySeasonDesc(_, _)
BySeasonDesc(table, rows) ==
    IF rows = <<>> THEN <<>>
    ELSE LET latest == CHOOSE y \in {table[rows[j]].season : j \in 1..Len(rows)} :
                          \A j \in 1..Len(rows) : table[rows[j]].season <= y
         IN  SelectSeq(rows, LAMBDA i : table[i].season = latest)
             \o BySeasonDesc(table, SelectSeq(rows, LAMBDA i : table[i].season # latest))

\* limit(n)
Limit(rows, n) == SubSeq(rows, 1, Min({n, Len(rows)}))

\* StatsService.get_player_yearly_stats_from_db
get_player_yearly_stats_from_db(table, name, pitcher, month) ==
    LET years == get_recent_completed_seasons(month)
        search_name == normalize_name(name)
    IN  [ key |-> search_name,
          rows |-> BySeason(table, SelectSeq(RowNumbers(table), LAMBDA i :
                      /\ table[i].normalized_name = search_name
                      /\ table[i].is_pitcher = pitcher
                      /\ table[i].season \in years)) ]

\* StatsService.get_player_yearly_stats: the seasons of the years asked for
\* are fetched again and keyed at the time of the lookup
get_player_yearly_stats(table, name, pitcher, month) ==
    LET years == get_recent_completed_seasons(month)
        search_name == normalize_name(name)
        df == SelectSeq(RowNumbers(table), LAMBDA i :
                  /\ table[i].is_pitcher = pitcher
                  /\ table[i].season \in years)
    IN  [ key |-> search_name,
          rows |-> BySeason(table, SelectSeq(df, LAMBDA i :
                      normalize_name(table[i].player_name) = search_name)) ]

\* ContextService.build_stats_context; ilike compares without regard to the
\* case of the letters
build_stats_context(table, name) ==
    LET normalized == Strip(LowerStr(name))
        stats == Limit(BySeasonDesc(table, SelectSeq(RowNumbers(table),
                     LAMBDA i : table[i].normalized_name = normalized)), 5)
        partial == Limit(BySeasonDesc(table, SelectSeq(RowNumbers(table),
                     LAMBDA i : Contains(LowerStr(table[i].player_name),
                                         LowerStr(name)))), 5)
    IN  [ key |-> normalized,
          by_key |-> stats,
          rows |-> IF stats # <<>> THEN stats ELSE partial ]

\* one name looked up by the three lookups
LookUp ==
    /\ spc \in {"seeding", "ready"}
    /\ \E n \in LookupNames : \E p \in BOOLEAN : \E mo \in Months :
          stats_lookup' =
              [ called |-> TRUE, player_name |-> n, is_pitcher |-> p,
                month |-> mo,
                db |-> get_player_yearly_stats_from_db(yearly_stats, n, p, mo),
                fallback |-> get_player_yearly_stats(yearly_stats, n, p, mo),
                chat |-> build_stats_context(yearly_stats, n) ]
    /\ spc' = "looked"
    /\ UNCHANGED yearly_stats
    /\ UNCHANGED <<normVars, matchVars, predictVars, rankVars, apiVars,
                   pipeVars>>

\* the next question: the result of the lookup is gone
NextLookup ==
    /\ spc = "looked"
    /\ spc' = "ready"
    /\ stats_lookup' = NoLookup
    /\ UNCHANGED yearly_stats
    /\ UNCHANGED <<normVars, matchVars, predictVars, rankVars, apiVars,
                   pipeVars>>

NextStats ==
    \/ SeedSeason
    \/ LookUp
    \/ NextLookup

SpecStats == InitStats /\ [][NextStats]_vars

----------------------------------------------------------------------------
(* Claims about the lookups by normalized name *)

LookedUp == spc = "looked"

\* the rows of the table whose key is the key given
KeyRows(k) ==
    SelectSeq(RowNumbers(yearly_stats), LAMBDA i : yearly_stats[i].normalized_name = k)

\* C23 as stated: the stats-service database lookup, the stats-service
\* fallback lookup and the chat stats context derive the key of the query
\* with the normalize_name that populated the key column, so that for every
\* name either all of them find the player's rows by key or none does.
C23_SameKeyEverywhere ==
    LookedUp =>
        /\ stats_lookup.db.key = normalize_name(stats_lookup.player_name)
        /\ stats_lookup.fallback.key = stats_lookup.db.key
        /\ stats_lookup.chat.key = stats_lookup.db.key
        /\ (KeyRows(stats_lookup.db.key) # <<>>)
              <=> (stats_lookup.chat.by_key # <<>>)

\* what holds instead: the two lookups of the stats service derive the same
\* key, that of normalize_name, and find the same seasons
C23_StatsServiceSameKey ==
    LookedUp =>
        /\ stats_lookup.db.key = normalize_name(stats_lookup.player_name)
        /\ stats_lookup.fallback.key = stats_lookup.db.key
        /\ stats_lookup.fallback.rows = stats_lookup.db.rows

\* the chat stats context derives another key than the stats service and
\* finds no row by it, while the key of the stats service has rows
C23_ChatKeyDiffers ==
    /\ LookedUp
    /\ stats_lookup.chat.key # stats_lookup.db.key
    /\ stats_lookup.chat.by_key = <<>>
    /\ stats_lookup.db.rows # <<>>

\* the chat stats context finds by key what the stats service finds: the
\* name was given as the key itself
C23_ChatKeyAgrees ==
    /\ LookedUp
    /\ stats_lookup.chat.key = stats_lookup.db.key
    /\ stats_lookup.chat.by_key # <<>>
    /\ stats_lookup.db.rows # <<>>

----------------------------------------------------------------------------
(* load_models called again: the service keeps its dictionaries between    *)
(* the calls, the directory may have changed.                              *)

\* the dictionaries of the service as they are
ServiceState ==
    [models |-> models, scalers |-> scalers, features |-> features,
     metrics |-> metrics, configs |-> configs,
     quantile_models |-> quantile_models, contracts_df |-> contracts_df,
     raised |-> FALSE]

\* the directories a call of load_models can find
ReloadDirs ==
    { CompleteDir(TRUE, TRUE, TRUE, <<>>), CompleteDir(FALSE, FALSE, FALSE, <<>>) }
        \cup FaultyDirs

ReloadRequests ==
    { [position |-> p, age |-> 30, war_3yr |-> 5000, stats |-> <<>>] :
        p \in {"SS", "SP"} }

ReloadOutputs == { [aav |-> 3000, low |-> -1000, high |-> 3000, length |-> 2500] }

InitReload ==
    /\ models_dir = NoDir
    /\ Constructed
    /\ ppc = "starting"
    /\ request = NoRequest
    /\ result = NoResult
    /\ NormIdle
    /\ MatchIdle
    /\ RankIdle
    /\ ApiIdle
    /\ StatsIdle
    /\ PipeIdle

\* a call of load_models, the first or a later one, on the directory as it
\* is at the time of the call
LoadModelsAgain ==
    /\ ppc \in {"starting", "serving"}
    /\ \E d \in ReloadDirs :
          \E r \in {load_models_on(ServiceState, d)} :
              /\ models_dir' = d
              /\ models' = r.st.models
              /\ scalers' = r.st.scalers
              /\ features' = r.st.features
              /\ configs' = r.st.configs
              /\ quantile_models' = r.st.quantile_models
              /\ metrics' = r.st.metrics
              /\ contracts_df' = r.st.contracts_df
              /\ loaded' = IF r.st.raised THEN loaded ELSE LoadedFlag(r.st.models)
    /\ ppc' = "serving"
    /\ UNCHANGED <<request, result>>
    /\ UNCHANGED <<normVars, matchVars, rankVars, apiVars, statsVars,
                   pipeVars>>

\* predict(request) between two calls of load_models
PredictReloaded ==
    /\ ppc = "serving"
    /\ \E req \in ReloadRequests :
          \E out \in ReloadOutputs :
              /\ request' = req
              /\ result' = predict(req, out)
    /\ ppc' = "predicted"
    /\ UNCHANGED <<models_dir, resourceVars, loaded>>
    /\ UNCHANGED <<normVars, matchVars, rankVars, apiVars, statsVars,
                   pipeVars>>

NextReload ==
    \/ LoadModelsAgain
    \/ PredictReloaded
    \/ NextRequest

SpecReload == InitReload /\ [][NextReload]_vars

----------------------------------------------------------------------------
(* Claims about load_models called again *)

\* the directory has the model, scaler, feature list and metrics of every
\* model type and every file of it can be read: a call of load_models on it
\* loads the four sets and does not raise
LoadsCompletely(d) ==
    /\ \A t \in ModelTypes :
          /\ RequiredArtifacts \subseteq d.present[t]
          /\ \A a \in d.present[t] : <<t, a>> \notin d.corrupt
    /\ d.csv_ok

\* the feature list or the metrics of a model type are not those of the
\* directory the last call of load_models read
StaleArtifacts ==
    \E t \in DOMAIN features :
        \/ features[t] # FeaturesFile(models_dir, t)
        \/ metrics[t] # MetricsFile(models_dir, t)

\* C30 as stated: after any sequence of load_models calls, is_loaded is true
\* only if the most recent call loaded all four model sets completely; a
\* call that raises part-way or finds fewer than four models leaves is_loaded
\* false, so predict never runs against a partially replaced set of
\* artifacts.
C30_LoadedOnlyAfterCompleteLoad ==
    (ppc # "starting" /\ loaded) =>
        /\ LoadsCompletely(models_dir)
        /\ ~StaleArtifacts

\* what holds instead: is_loaded is true only if four models are in the
\* dictionary, whichever call put them there
C30_LoadedHasFourModels == loaded => Cardinality(models) >= 4

\* a prediction was made while is_loaded was true after a call of
\* load_models that raised or skipped a model type, with feature lists of
\* two directories
C30_PredictOnPartlyReplaced ==
    /\ ppc = "predicted"
    /\ result.status = "ok"
    /\ loaded
    /\ ~LoadsCompletely(models_dir)
    /\ StaleArtifacts

\* is_loaded is true although no call of load_models loaded the four sets:
\* a model type has a model of an earlier call that raised, and no scaler;
\* predict raises KeyError
C30_LoadedWithoutScaler ==
    /\ ppc = "predicted"
    /\ loaded
    /\ scalers # ModelTypes
    /\ result.status = "KeyError"

----------------------------------------------------------------------------
(* Predictions in progress: the steps of _predict_batter and               *)
(* _predict_pitcher for several calls of predict on the one service, in    *)
(* any interleaving. The service's dictionaries are read; what a step      *)
(* computes is kept in the local variables of its call.                    *)

\* the calls of predict that can be in progress together
Calls == {1, 2}

\* every call of predict on one set of local variables
Frame_Shared(i) == 1

\* the local variables of a call of predict: one frame per call
Frame(i) == i

\* the steps with the comparables ranked before the attribution
StepAfter_RankingFirst(stage) ==
    CASE stage = "AssemblingFeatures" -> "Predicting"
      [] stage = "Predicting" -> "Ranking"
      [] stage = "Ranking" -> "Attributing"
      [] stage = "Attributing" -> "Done"

\* the step that follows a step of _predict_batter / _predict_pitcher:
\* feature values and array, the AAV, interval and length models, the
\* feature importance, the comparables, the returned dictionary
StepAfter(stage) ==
    CASE stage = "AssemblingFeatures" -> "Predicting"
      [] stage = "Predicting" -> "Attributing"
      [] stage = "Attributing" -> "Ranking"
      [] stage = "Ranking" -> "Done"

NoCall ==
    [stage |-> "Idle", steps |-> <<>>, request |-> NoRequest,
     result |-> NoResult, feature_importance |-> {}]

\* the local variables of _predict_batter / _predict_pitcher before the
\* first assignment
NoFrame ==
    [feature_values |-> <<>>, X |-> <<>>, X_length |-> <<>>,
     predicted_aav |-> 0, predicted_aav_low |-> 0, predicted_aav_high |-> 0,
     predicted_length |-> 0, accuracy |-> 0, top_features |-> {},
     comparables |-> <<>>]

AavTypeOf(req) == IF is_pitcher(req.position) THEN "pitcher_aav" ELSE "batter_aav"

LengthTypeOf(req) ==
    IF is_pitcher(req.position) THEN "pitcher_length" ELSE "batter_length"

FeatureValuesOf(req) ==
    IF is_pitcher(req.position) THEN PitcherFeatureValues(req)
    ELSE BatterFeatureValues(req)

\* what the regressors of a model type return for an array: the models are
\* functions of the array, here of its WAR entry
ModelOutput(aav_type, X) ==
    [aav |-> IF Len(X) >= 2 /\ X[2] >= 5000 THEN 3000 ELSE 0,
     low |-> -1000,
     high |-> 3000,
     length |-> IF aav_type = "pitcher_aav" THEN 400 ELSE 2500]

\* self.models[t].feature_importances_: one weight per feature of the list
FeatureImportances(t) == [i \in 1..Len(features[t]) |-> (i * 7) % 11]

\* dict(sorted(importance.items(), key=lambda x: -x[1])[:5]): the names of
\* the five largest weights, the earlier name first among equal weights
TopFeatures(feature_list, weights) ==
    { feature_list[i] : i \in
        { i \in 1..Len(feature_list) :
            Cardinality({ j \in 1..Len(feature_list) :
                            \/ weights[j] > weights[i]
                            \/ weights[j] = weights[i] /\ j < i }) < 5 } }

\* the dictionary returned from the local variables
Returned(f) ==
    [status |-> "ok",
     comparables |-> f.comparables,
     feature_values |-> f.feature_values,
     X |-> f.X,
     X_length |-> f.X_length,
     predicted_aav |-> f.predicted_aav,
     predicted_aav_low |-> f.predicted_aav_low,
     predicted_aav_high |-> f.predicted_aav_high,
     predicted_length |-> Max(1, Round(f.predicted_length)),
     confidence_score |-> Confidence(f.accuracy),
     model_accuracy |-> f.accuracy]

\* call i goes on to the step after its stage with the local variables f;
\* after the last step the dictionary is returned
Advance(i, f) ==
    LET next == StepAfter(inflight[i].stage)
    IN  [inflight EXCEPT
            ![i].stage = next,
            ![i].steps = Append(@, next),
            ![i].result = IF next = "Done" THEN Returned(f) ELSE @,
            ![i].feature_importance = IF next = "Done" THEN f.top_features ELSE @]

\* call i ends with the exception given
Fail(i, exception) ==
    [inflight EXCEPT
        ![i].stage = "Failed",
        ![i].steps = Append(@, "Failed"),
        ![i].result = [status |-> exception]]

\* the models directories of the service: complete ones, and one whose
\* contracts file cannot be read
PipeDirs ==
    { CompleteDir(TRUE, TRUE, TRUE, c) : c \in ContractTables }
        \cup { [CompleteDir(TRUE, TRUE, TRUE, <<>>) EXCEPT !.csv_ok = FALSE] }

PipeRequests ==
    { [position |-> "SS", age |-> 30, war_3yr |-> w, stats |-> <<>>] :
        w \in {4000, 5000} }
    \cup { [position |-> "SP", age |-> 29, war_3yr |-> w, stats |-> <<>>] :
            w \in {4000, 5000} }

InitPipeline ==
    /\ models_dir \in PipeDirs
    /\ Constructed
    /\ ppc = "starting"
    /\ request = NoRequest
    /\ result = NoResult
    /\ inflight = [i \in Calls |-> NoCall]
    /\ frames = [i \in Calls |-> NoFrame]
    /\ NormIdle
    /\ MatchIdle
    /\ RankIdle
    /\ ApiIdle
    /\ StatsIdle

\* predict(request) is called: RuntimeError unless the models are loaded
Receive(i) ==
    /\ ppc = "serving"
    /\ inflight[i].stage = "Idle"
    /\ \E req \in PipeRequests :
          inflight' =
              IF ~loaded
              THEN Fail(i, "Models not loaded")
              ELSE [inflight EXCEPT ![i].stage = "AssemblingFeatures",
                                    ![i].steps = <<"AssemblingFeatures">>,
                                    ![i].request = req]
    /\ UNCHANGED frames
    /\ UNCHANGED predictVars
    /\ UNCHANGED <<normVars, matchVars, rankVars, apiVars, statsVars>>

\* feature_values and the array X
Assemble(i) ==
    /\ ppc = "serving"
    /\ inflight[i].stage = "AssemblingFeatures"
    /\ \E req \in {inflight[i].request} :
          IF AavTypeOf(req) \notin DOMAIN features
          THEN /\ inflight' = Fail(i, "KeyError")
               /\ UNCHANGED frames
          ELSE \E f \in { [frames[Frame(i)] EXCEPT
                             !.feature_values = FeatureValuesOf(req),
                             !.X = FeatureArray(FeatureValuesOf(req),
                                                features[AavTypeOf(req)])] } :
                  /\ frames' = [frames EXCEPT ![Frame(i)] = f]
                  /\ inflight' = Advance(i, f)
    /\ UNCHANGED predictVars
    /\ UNCHANGED <<normVars, matchVars, rankVars, apiVars, statsVars>>

\* the point estimate, the interval, the length and the accuracy
PredictStep(i) ==
    /\ ppc = "serving"
    /\ inflight[i].stage = "Predicting"
    /\ \E req \in {inflight[i].request} :
          IF ~HasArtifacts(AavTypeOf(req)) \/ ~HasArtifacts(LengthTypeOf(req))
          THEN /\ inflight' = Fail(i, "KeyError")
               /\ UNCHANGED frames
          ELSE \E out \in {ModelOutput(AavTypeOf(req), frames[Frame(i)].X)} :
               \E predicted_aav \in {PointEstimate(AavTypeOf(req), out.aav)} :
               \E interval \in {Interval(AavTypeOf(req), predicted_aav,
                                         out.low, out.high)} :
               \E f \in { [frames[Frame(i)] EXCEPT
                             !.predicted_aav = predicted_aav,
                             !.predicted_aav_low = interval[1],
                             !.predicted_aav_high = interval[2],
                             !.X_length =
                                 FeatureArray(frames[Frame(i)].feature_values,
                                              features[LengthTypeOf(req)]),
                             !.predicted_length = out.length,
                             !.accuracy = metrics[AavTypeOf(req)].within_5m] } :
                  /\ frames' = [frames EXCEPT ![Frame(i)] = f]
                  /\ inflight' = Advance(i, f)
    /\ UNCHANGED predictVars
    /\ UNCHANGED <<normVars, matchVars, rankVars, apiVars, statsVars>>

\* the feature importance: the five largest
Attribute(i) ==
    /\ ppc = "serving"
    /\ inflight[i].stage = "Attributing"
    /\ \E t \in {AavTypeOf(inflight[i].request)} :
       \E f \in { [frames[Frame(i)] EXCEPT
                     !.top_features =
                         TopFeatures(features[t], FeatureImportances(t))] } :
          /\ frames' = [frames EXCEPT ![Frame(i)] = f]
          /\ inflight' = Advance(i, f)
    /\ UNCHANGED predictVars
    /\ UNCHANGED <<normVars, matchVars, rankVars, apiVars, statsVars>>

\* the comparables: a ComparablePlayer that cannot be built ends the call
RankStep(i) ==
    /\ ppc = "serving"
    /\ inflight[i].stage = "Ranking"
    /\ \E req \in {inflight[i].request} :
       \E found \in {_find_comparables(contracts_df, req,
                                       is_pitcher(req.position), 5)} :
          IF found.status # "ok"
          THEN /\ inflight' = Fail(i, found.status)
               /\ UNCHANGED frames
          ELSE \E f \in { [frames[Frame(i)] EXCEPT !.comparables = found.top] } :
                  /\ frames' = [frames EXCEPT ![Frame(i)] = f]
                  /\ inflight' = Advance(i, f)
    /\ UNCHANGED predictVars
    /\ UNCHANGED <<normVars, matchVars, rankVars, apiVars, statsVars>>

\* the call has returned or raised: its local variables are gone
Respond(i) ==
    /\ inflight[i].stage \in {"Done", "Failed"}
    /\ inflight' = [inflight EXCEPT ![i] = NoCall]
    /\ frames' = [frames EXCEPT ![Frame(i)] = NoFrame]
    /\ UNCHANGED predictVars
    /\ UNCHANGED <<normVars, matchVars, rankVars, apiVars, statsVars>>

NextPipeline ==
    \/ LoadModels
    \/ \E i \in Calls : Receive(i)
    \/ \E i \in Calls : Assemble(i)
    \/ \E i \in Calls : PredictStep(i)
    \/ \E i \in Calls : Attribute(i)
    \/ \E i \in Calls : RankStep(i)
    \/ \E i \in Calls : Respond(i)

SpecPipeline == InitPipeline /\ [][NextPipeline]_vars

----------------------------------------------------------------------------
(* Claims about predictions in progress *)

\* what predict returns for the request when no other call is in progress
Alone(req) ==
    predict(req, ModelOutput(AavTypeOf(req),
                             FeatureArray(FeatureValuesOf(req),
                                          features[AavTypeOf(req)])))

InProgress(i) ==
    inflight[i].stage \in {"Predicting", "Attributing", "Ranking"}

\* C21: for prediction requests handled together against a loaded service,
\* in any interleaving of their steps, the result of each request is the
\* result the request returns when run alone, and no request sees what
\* another has written: the local variables of a call in progress hold the
\* feature values of its own request, those of a call not yet begun hold
\* nothing.
C21_SameAsAlone ==
    \A i \in DOMAIN inflight :
        /\ inflight[i].stage = "Done" =>
              /\ inflight[i].result = Alone(inflight[i].request)
              /\ inflight[i].feature_importance =
                    TopFeatures(features[AavTypeOf(inflight[i].request)],
                        FeatureImportances(AavTypeOf(inflight[i].request)))
        /\ (inflight[i].stage = "Failed" /\ loaded) =>
              inflight[i].result = Alone(inflight[i].request)
        /\ InProgress(i) =>
              frames[Frame(i)].feature_values = FeatureValuesOf(inflight[i].request)
        /\ inflight[i].stage = "Idle" => frames[Frame(i)] = NoFrame

\* one call has returned its prediction while another call, for another
\* request, is between two of its steps
C21_Witness ==
    /\ inflight # <<>>
    /\ loaded
    /\ \E i, j \in DOMAIN inflight :
          /\ i # j
          /\ inflight[i].stage = "Done"
          /\ inflight[i].result.status = "ok"
          /\ InProgress(j)
          /\ inflight[j].request # inflight[i].request

\* the steps of _predict_batter / _predict_pitcher in the order of the code
StepsOfCode ==
    <<"AssemblingFeatures", "Predicting", "Attributing", "Ranking", "Done">>

\* the order AssemblingFeatures, Predicting, Ranking, Attributing, Done
StepsRankingFirst ==
    <<"AssemblingFeatures", "Predicting", "Ranking", "Attributing", "Done">>

IsPrefix(s, t) == Len(s) <= Len(t) /\ s = SubSeq(t, 1, Len(s))

\* the steps of a call follow the order given: a call that is done has taken
\* them all, a call in progress or failed a prefix of them before "Done",
\* and a failed call has no result
FollowsOrder(c, order) ==
    /\ c.stage = "Done" => c.steps = order /\ c.result.status = "ok"
    /\ c.stage = "Failed" =>
          /\ c.steps[Len(c.steps)] = "Failed"
          /\ IsPrefix(SubSeq(c.steps, 1, Len(c.steps) - 1),
                      SubSeq(order, 1, Len(order) - 1))
          /\ c.result.status # "ok"
    /\ c.stage \notin {"Idle", "Done", "Failed"} =>
          /\ IsPrefix(c.steps, SubSeq(order, 1, Len(order) - 1))
          /\ c.steps[Len(c.steps)] = c.stage

C28_WitnessFailedRanking ==
    \E i \in DOMAIN inflight :
        /\ inflight[i].stage = "Failed"
        /\ inflight[i].steps =
              <<"AssemblingFeatures", "Predicting", "Attributing", "Ranking",
                "Failed">>

====
